---- MODULE Spec2Model ----
(***************************************************************************)
(* Per-user task manager with a conversational tool layer.                 *)
(*                                                                         *)
(* The model follows backend/tools/task_tools.py (the five tools),         *)
(* backend/services/tool_executor.py (the dispatcher),                     *)
(* backend/routers/chat.py (the chat turn) and backend/routes/tasks.py     *)
(* (the HTTP task endpoints).                                              *)
(*                                                                         *)
(* Text values are sequences of one-character strings, so that strip,      *)
(* lower, len and the SQL ILIKE pattern match are computed and not         *)
(* assumed.  The Python value None is the one-element sequence None.       *)
(***************************************************************************)
EXTENDS Integers, Sequences, FiniteSets, TLC

VARIABLES
    tasks,          \* committed rows of table tasks: id -> row
    next_id,        \* next value of the tasks id sequence
    conversations,  \* committed rows of table conversations: id -> row
    messages,       \* committed rows of table messages, in insertion order
    now,            \* the value datetime.utcnow() returns
    pc,             \* position of each chat request in chat_endpoint
    req,            \* each chat request: path user id, token identity, body
    sess,           \* each chat request's SQLAlchemy session
    calls,          \* tool calls of the first model response not yet dispatched
    tool_results,   \* chat_endpoint's tool_results list
    response,       \* the HTTP response of each chat request
    cohere,         \* each chat request's exchange with co.chat
    toggles,        \* each toggle request between its read and its commit
    pending         \* created_at of the user message a chat request's
                    \* session holds and did not commit

vars == << tasks, next_id, conversations, messages, now, pc, req, sess,
           calls, tool_results, response, cohere, toggles, pending >>

-----------------------------------------------------------------------------
(* Text                                                                    *)

None == << "None" >>

\* Python truthiness of an Optional[str]
Truthy(s) == s # None /\ s # << >>

Whitespace == { " " }

LowerChar(c) ==
    CASE c = "A" -> "a"
      [] c = "B" -> "b"
      [] c = "D" -> "d"
      [] c = "E" -> "e"
      [] c = "I" -> "i"
      [] c = "K" -> "k"
      [] c = "L" -> "l"
      [] c = "M" -> "m"
      [] c = "N" -> "n"
      [] c = "R" -> "r"
      [] c = "U" -> "u"
      [] c = "X" -> "x"
      [] c = "Y" -> "y"
      [] OTHER -> c

\* str.lower()
Lower(s) == [i \in 1..Len(s) |-> LowerChar(s[i])]

RECURSIVE LStrip(_)
LStrip(s) ==
    IF s # << >> /\ Head(s) \in Whitespace THEN LStrip(Tail(s)) ELSE s

RECURSIVE RStrip(_)
RStrip(s) ==
    IF s # << >> /\ s[Len(s)] \in Whitespace
    THEN RStrip(SubSeq(s, 1, Len(s) - 1))
    ELSE s

\* str.strip()
Strip(s) == RStrip(LStrip(s))

\* SQL LIKE: % matches any run of characters, _ any one character
RECURSIVE Like(_, _)
Like(s, p) ==
    IF p = << >> THEN s = << >>
    ELSE IF Head(p) = "%"
         THEN Like(s, Tail(p)) \/ (s # << >> /\ Like(Tail(s), p))
         ELSE /\ s # << >>
              /\ (Head(p) = "_" \/ Head(p) = Head(s))
              /\ Like(Tail(s), Tail(p))

\* column.ilike(pattern): LIKE on the lower-cased operands
ILike(s, p) == Like(Lower(s), Lower(p))

Digits == << "0", "1", "2", "3", "4", "5", "6", "7", "8", "9" >>

DigitValue(c) == (CHOOSE i \in 1..10 : Digits[i] = c) - 1

IsDigit(c) == \E i \in 1..10 : Digits[i] = c

\* str(n) for n >= 0
RECURSIVE StrOfInt(_)
StrOfInt(n) ==
    IF n < 10 THEN << Digits[n + 1] >>
    ELSE StrOfInt(n \div 10) \o << Digits[(n % 10) + 1] >>

\* int(s) raises ValueError unless s, stripped, is a run of digits
IsIntLiteral(s) ==
    /\ Strip(s) # << >>
    /\ \A i \in 1..Len(Strip(s)) : IsDigit(Strip(s)[i])

RECURSIVE IntOfDigits(_)
IntOfDigits(s) ==
    IF s = << >> THEN 0
    ELSE 10 * IntOfDigits(SubSeq(s, 1, Len(s) - 1)) + DigitValue(s[Len(s)])

IntOf(s) == IntOfDigits(Strip(s))

-----------------------------------------------------------------------------
(* The store as one SQLAlchemy session sees it                             *)

\* A session holds attribute changes that are not committed: dirty ones live
\* in the identity map only, flushed ones were written by an autoflush and
\* hold the row's lock until the transaction ends.  inactive is the state
\* after a failed flush, in which every statement raises until rollback().
CleanSession == [dirty |-> << >>, flushed |-> << >>, inactive |-> FALSE]

BrokenSession == [dirty |-> << >>, flushed |-> << >>, inactive |-> TRUE]

\* The UPDATE of an autoflush finds no row: StaleDataError
Stale(store, s) ==
    \E id \in DOMAIN s.dirty : id \notin DOMAIN store

QueryFails(store, s) == s.inactive \/ Stale(store, s)

ExcName(store, s) ==
    IF s.inactive THEN "PendingRollbackError" ELSE "StaleDataError"

AfterFail(s) == IF s.inactive THEN s ELSE BrokenSession

PendingTitle(s, id) ==
    IF id \in DOMAIN s.dirty THEN s.dirty[id] ELSE s.flushed[id]

\* autoflush before a statement: the dirty changes are written
Flushed(s) ==
    [s EXCEPT !.dirty = << >>,
              !.flushed = [id \in DOMAIN s.dirty \cup DOMAIN s.flushed |->
                              PendingTitle(s, id)]]

\* the rows a statement of the session reads: committed rows and its own writes
View(store, s) ==
    [id \in DOMAIN store |->
        IF id \in DOMAIN s.dirty \cup DOMAIN s.flushed
        THEN [store[id] EXCEPT !.title = PendingTitle(s, id)]
        ELSE store[id]]

\* position of x in the sequence ord
Pos(ord, x) == CHOOSE i \in 1..Len(ord) : ord[i] = x

\* all orders in which the rows of S can come back from a statement
Orders(S) ==
    { o \in [1..Cardinality(S) -> S] : \A x \in S : \E i \in DOMAIN o : o[i] = x }

\* the members of S in the order ord lists them
InOrder(S, ord) ==
    [i \in 1..Cardinality(S) |->
        CHOOSE x \in S : Cardinality({ y \in S : Pos(ord, y) < Pos(ord, x) }) = i - 1]

\* .first(): the first row of the result, or no row
First(S, ord) == IF S = {} THEN 0 ELSE InOrder(S, ord)[1]

\* NewestFirst without the ORDER BY of line 155: the rows in scan order
ScanOrder(view, S, ord) == InOrder(S, ord)

\* ORDER BY created_at DESC; rows with equal created_at come in scan order
NewestFirst(view, S, ord) ==
    LET Before(a, b) ==
            \/ view[a].created_at > view[b].created_at
            \/ /\ view[a].created_at = view[b].created_at
               /\ Pos(ord, a) < Pos(ord, b)
    IN  [i \in 1..Cardinality(S) |->
            CHOOSE x \in S : Cardinality({ y \in S : Before(y, x) }) = i - 1]

TaskDict(id, row) ==
    [id |-> StrOfInt(id), user_id |-> row.user_id, title |-> row.title,
     description |-> row.description, completed |-> row.completed,
     created_at |-> row.created_at, updated_at |-> row.updated_at]

Candidate(id, row) ==
    [id |-> StrOfInt(id), title |-> row.title, completed |-> row.completed]

ErrorResult(msg) == [status |-> "error", error |-> msg]

\* what a tool leaves behind: its result, the committed rows, the id sequence,
\* the session, and whether it ended by raising
Out(result, store, nid, s) ==
    [result |-> result, tasks |-> store, next_id |-> nid, sess |-> s,
     raised |-> FALSE]

Raise(name, store, nid, s) ==
    [result |-> ErrorResult(name), tasks |-> store, next_id |-> nid, sess |-> s,
     raised |-> TRUE]

-----------------------------------------------------------------------------
(* The five tools (tools/task_tools.py)                                    *)

MaxTitleLen == 255

MaxDescriptionLen == 1000

\* the duplicate lookup of add_task: ILIKE of the lower-cased new title
Duplicates(view, user_id, title) ==
    { id \in DOMAIN view :
        /\ view[id].user_id = user_id
        /\ ILike(view[id].title, Lower(title)) }

\* lines 61-114 of add_task: the duplicate is reported and nothing is
\* committed, or the row is inserted and committed
AddChecked(store, view, nid, s, clock, existing, user_id, title, description) ==
    IF existing # 0
    THEN Out([status |-> "warning",
              existing_task_id |-> StrOfInt(existing),
              existing_task |->
                  [id |-> StrOfInt(existing),
                   title |-> view[existing].title,
                   description |-> view[existing].description,
                   completed |-> view[existing].completed]],
             store, nid, Flushed(s))
    ELSE Out([status |-> "success",
              task |-> [id |-> StrOfInt(nid), user_id |-> user_id,
                        title |-> title, description |-> description,
                        completed |-> FALSE, created_at |-> clock,
                        updated_at |-> clock]],
             [id \in DOMAIN view \cup {nid} |->
                 IF id = nid
                 THEN [user_id |-> user_id, title |-> title,
                       description |-> description, completed |-> FALSE,
                       created_at |-> clock, updated_at |-> clock]
                 ELSE view[id]],
             nid + 1, CleanSession)

\* AddValidated without the checks of lines 44-57
AddUnvalidated(store, nid, s, clock, ord, user_id, title, description) ==
    IF QueryFails(store, s)
    THEN Out([status |-> "error", error |-> "Failed to add task",
              details |-> ExcName(store, s)], store, nid, CleanSession)
    ELSE AddChecked(store, View(store, s), nid, s, clock,
                    First(Duplicates(View(store, s), user_id, title), ord),
                    user_id, title,
                    IF Truthy(description) THEN description ELSE None)

\* lines 43-57 of add_task, on the stripped title and description
AddValidated(store, nid, s, clock, ord, user_id, title, description) ==
    IF ~Truthy(title)
    THEN Out(ErrorResult("Title is required"), store, nid, s)
    ELSE IF Len(title) > MaxTitleLen
    THEN Out(ErrorResult("Title must be 255 characters or less"), store, nid, s)
    ELSE IF Truthy(description) /\ Len(description) > MaxDescriptionLen
    THEN Out(ErrorResult("Description must be 1000 characters or less"),
             store, nid, s)
    ELSE IF QueryFails(store, s)
    THEN Out([status |-> "error", error |-> "Failed to add task",
              details |-> ExcName(store, s)], store, nid, CleanSession)
    ELSE AddChecked(store, View(store, s), nid, s, clock,
                    First(Duplicates(View(store, s), user_id, title), ord),
                    user_id, title,
                    IF Truthy(description) THEN description ELSE None)

\* add_task: strip, validate, look for a duplicate title, insert and commit.
\* Its whole body runs in try/except: a failing statement ends in
\* session.rollback() and an error result.
add_task(store, nid, s, clock, ord, user_id, title, description) ==
    AddValidated(store, nid, s, clock, ord, user_id,
                 IF Truthy(title) THEN Strip(title) ELSE title,
                 IF Truthy(description) THEN Strip(description) ELSE description)

\* ListFilter without the owner condition of line 145
ListFilterAll(view, user_id, status) ==
    { id \in DOMAIN view :
        /\ (status = "completed" => view[id].completed)
        /\ (status = "incomplete" => ~view[id].completed) }

\* ListFilter that takes every status but "completed" as no filter
ListFilterCompleted(view, user_id, status) ==
    { id \in DOMAIN view :
        /\ view[id].user_id = user_id
        /\ (status = "completed" => view[id].completed) }

\* list_tasks: the owner's rows under the status filter, newest first
ListFilter(view, user_id, status) ==
    { id \in DOMAIN view :
        /\ view[id].user_id = user_id
        /\ (status = "completed" => view[id].completed)
        /\ (status = "incomplete" => ~view[id].completed) }

ListResult(view, rows) ==
    [status |-> "success",
     tasks |-> [i \in DOMAIN rows |-> TaskDict(rows[i], view[rows[i]])],
     count |-> Len(rows)]

list_tasks(store, nid, s, ord, user_id, status) ==
    IF QueryFails(store, s)
    THEN Raise(ExcName(store, s), store, nid, AfterFail(s))
    ELSE Out(ListResult(View(store, s),
                        NewestFirst(View(store, s),
                                    ListFilter(View(store, s), user_id, status),
                                    ord)),
             store, nid, Flushed(s))

\* ById without the owner condition of lines 211, 317 and 425
ByIdAnyOwner(view, user_id, task_id) ==
    IF /\ Truthy(task_id)
       /\ IsIntLiteral(task_id)
       /\ IntOf(task_id) \in DOMAIN view
    THEN IntOf(task_id)
    ELSE 0

\* ByTitle as it would be with title equality in place of ILIKE '%title%'
ByTitleExact(view, user_id, title) ==
    { id \in DOMAIN view :
        /\ view[id].user_id = user_id
        /\ Lower(view[id].title) = Lower(title) }

\* The lookup that complete_task, delete_task (312-361) and update_task
\* (420-469) each spell out: first by id and owner, then, if that found no
\* task and a title was given, by ILIKE '%title%' and owner.
ById(view, user_id, task_id) ==
    IF /\ Truthy(task_id)
       /\ IsIntLiteral(task_id)
       /\ IntOf(task_id) \in DOMAIN view
       /\ view[IntOf(task_id)].user_id = user_id
    THEN IntOf(task_id)
    ELSE 0

ByTitle(view, user_id, title) ==
    { id \in DOMAIN view :
        /\ view[id].user_id = user_id
        /\ ILike(view[id].title, << "%" >> \o title \o << "%" >>) }

\* Found as it would be if the first of several rows were taken
FoundFirst(view, rows, after) ==
    IF Len(rows) >= 1 THEN [kind |-> "task", id |-> rows[1], sess |-> after]
    ELSE [kind |-> "none", sess |-> after]

\* the rows of the title search, in the order the statement returned them
Found(view, rows, after) ==
    IF Len(rows) = 1 THEN [kind |-> "task", id |-> rows[1], sess |-> after]
    ELSE IF Len(rows) > 1
    THEN [kind |-> "multiple", sess |-> after,
          tasks |-> [i \in DOMAIN rows |-> Candidate(rows[i], view[rows[i]])]]
    ELSE [kind |-> "none", sess |-> after]

\* Resolved with the title search done whenever a title is given
ResolvedByTitle(view, ord, user_id, by_id, title, after) ==
    IF Truthy(title)
    THEN Found(view, InOrder(ByTitle(view, user_id, title), ord), after)
    ELSE IF by_id # 0 THEN [kind |-> "task", id |-> by_id, sess |-> after]
    ELSE [kind |-> "none", sess |-> after]

\* lines 206-233, 312-339 and 420-447: the task found by id is taken, and
\* the title search runs only if none was found and a title is given
Resolved(view, ord, user_id, by_id, title, after) ==
    IF by_id # 0 THEN [kind |-> "task", id |-> by_id, sess |-> after]
    ELSE IF Truthy(title)
    THEN Found(view, InOrder(ByTitle(view, user_id, title), ord), after)
    ELSE [kind |-> "none", sess |-> after]

\* a statement is executed if the id is a number, or if no task was found by
\* id and a title was given
Queries(view, user_id, task_id, title) ==
    \/ Truthy(task_id) /\ IsIntLiteral(task_id)
    \/ ById(view, user_id, task_id) = 0 /\ Truthy(title)

ResolveReference(store, s, ord, user_id, task_id, title) ==
    IF ~Queries(View(store, s), user_id, task_id, title)
    THEN [kind |-> "none", sess |-> s]
    ELSE IF QueryFails(store, s)
    THEN [kind |-> "raised", sess |-> AfterFail(s)]
    ELSE Resolved(View(store, s), ord, user_id,
                  ById(View(store, s), user_id, task_id), title, Flushed(s))

\* what the three tools do alike with an unresolved reference; committed is
\* the outcome for a resolved one
Unresolved(store, nid, exc, ref, committed) ==
    IF ref.kind = "raised" THEN Raise(exc, store, nid, ref.sess)
    ELSE IF ref.kind = "multiple"
    THEN Out([status |-> "multiple_matches", tasks |-> ref.tasks],
             store, nid, ref.sess)
    ELSE IF ref.kind = "none"
    THEN Out(ErrorResult("Task not found for this user"), store, nid, ref.sess)
    ELSE committed

\* Completed as it would be if line 260 flipped the flag
Toggled(view, nid, clock, id) ==
    Out([status |-> "success",
         task |-> TaskDict(id, [view[id] EXCEPT !.completed = ~@,
                                                !.updated_at = clock])],
        [view EXCEPT ![id].completed = ~@, ![id].updated_at = clock],
        nid, CleanSession)

\* lines 257-282: completed and updated_at are set and committed
Completed(view, nid, clock, id) ==
    Out([status |-> "success",
         task |-> TaskDict(id, [view[id] EXCEPT !.completed = TRUE,
                                                !.updated_at = clock])],
        [view EXCEPT ![id].completed = TRUE, ![id].updated_at = clock],
        nid, CleanSession)

CompleteResolved(store, nid, s, clock, ref) ==
    Unresolved(store, nid, ExcName(store, s), ref,
               IF ref.kind = "task"
               THEN Completed(View(store, s), nid, clock, ref.id)
               ELSE Out(ErrorResult(""), store, nid, s))

\* complete_task without the check of lines 201-204
CompleteUnguarded(store, nid, s, clock, ord, user_id, task_id, title) ==
    CompleteResolved(store, nid, s, clock,
                     ResolveReference(store, s, ord, user_id, task_id, title))

complete_task(store, nid, s, clock, ord, user_id, task_id, title) ==
    IF ~Truthy(task_id) /\ ~Truthy(title)
    THEN Out(ErrorResult("Must provide either task_id or title"), store, nid, s)
    ELSE CompleteResolved(store, nid, s, clock,
                          ResolveReference(store, s, ord, user_id, task_id, title))

\* Deleted without session.delete(task) of line 371
Kept(view, nid, id) ==
    Out([status |-> "success", task_id |-> StrOfInt(id)], view, nid, CleanSession)

\* lines 363-381: the row is deleted and the delete committed
Deleted(view, nid, id) ==
    Out([status |-> "success", task_id |-> StrOfInt(id)],
        [i \in DOMAIN view \ {id} |-> view[i]], nid, CleanSession)

DeleteResolved(store, nid, s, ref) ==
    Unresolved(store, nid, ExcName(store, s), ref,
               IF ref.kind = "task"
               THEN Deleted(View(store, s), nid, ref.id)
               ELSE Out(ErrorResult(""), store, nid, s))

delete_task(store, nid, s, ord, user_id, task_id, title) ==
    IF ~Truthy(task_id) /\ ~Truthy(title)
    THEN Out(ErrorResult("Must provide either task_id or title"), store, nid, s)
    ELSE DeleteResolved(store, nid, s,
                        ResolveReference(store, s, ord, user_id, task_id, title))

\* task.title = title.strip(): the attribute is dirty if its value changed
Dirtied(s, id, old_title, title) ==
    IF title = None \/ Strip(title) = old_title THEN s
    ELSE [s EXCEPT !.dirty = [i \in {id} |-> Strip(title)]]

\* Updated as it would be if an absent description were assigned as well
UpdatedAll(store, view, nid, clock, id, after, title, description) ==
    IF title # None /\ (~Truthy(title) \/ Len(title) > MaxTitleLen)
    THEN Out(ErrorResult("Title must be between 1 and 255 characters"),
             store, nid, after)
    ELSE IF description # None /\ Len(description) > MaxDescriptionLen
    THEN Out(ErrorResult("Description must be 1000 characters or less"),
             store, nid, Dirtied(after, id, view[id].title, title))
    ELSE Out([status |-> "success",
              task |-> TaskDict(id,
                  [view[id] EXCEPT
                      !.title = IF title # None THEN Strip(title) ELSE @,
                      !.description =
                          IF Truthy(description) THEN Strip(description) ELSE None,
                      !.updated_at = clock])],
             [view EXCEPT
                 ![id].title = IF title # None THEN Strip(title) ELSE @,
                 ![id].description =
                     IF Truthy(description) THEN Strip(description) ELSE None,
                 ![id].updated_at = clock],
             nid, CleanSession)

\* lines 471-513: update_task assigns task.title before it validates the
\* description, and returns from the description check without commit or
\* rollback: the new title stays in the session as a dirty attribute.
Updated(store, view, nid, clock, id, after, title, description) ==
    IF title # None /\ (~Truthy(title) \/ Len(title) > MaxTitleLen)
    THEN Out(ErrorResult("Title must be between 1 and 255 characters"),
             store, nid, after)
    ELSE IF description # None /\ Len(description) > MaxDescriptionLen
    THEN Out(ErrorResult("Description must be 1000 characters or less"),
             store, nid, Dirtied(after, id, view[id].title, title))
    ELSE Out([status |-> "success",
              task |-> TaskDict(id,
                  [view[id] EXCEPT
                      !.title = IF title # None THEN Strip(title) ELSE @,
                      !.description =
                          IF description = None THEN @
                          ELSE IF Truthy(description) THEN Strip(description)
                          ELSE None,
                      !.updated_at = clock])],
             [view EXCEPT
                 ![id].title = IF title # None THEN Strip(title) ELSE @,
                 ![id].description =
                     IF description = None THEN @
                     ELSE IF Truthy(description) THEN Strip(description)
                     ELSE None,
                 ![id].updated_at = clock],
             nid, CleanSession)

UpdateResolved(store, nid, s, clock, ref, title, description) ==
    Unresolved(store, nid, ExcName(store, s), ref,
               IF ref.kind = "task"
               THEN Updated(store, View(store, s), nid, clock, ref.id, ref.sess,
                            title, description)
               ELSE Out(ErrorResult(""), store, nid, s))

\* update_task without the check of lines 415-418
UpdateUnchecked(store, nid, s, clock, ord, user_id, task_id, old_title, title, description) ==
    IF ~Truthy(task_id) /\ ~Truthy(old_title)
    THEN Out(ErrorResult("Must provide either task_id or old_title"),
             store, nid, s)
    ELSE UpdateResolved(store, nid, s, clock,
                        ResolveReference(store, s, ord, user_id, task_id, old_title),
                        title, description)

update_task(store, nid, s, clock, ord, user_id, task_id, old_title, title, description) ==
    IF ~Truthy(task_id) /\ ~Truthy(old_title)
    THEN Out(ErrorResult("Must provide either task_id or old_title"),
             store, nid, s)
    ELSE IF title = None /\ description = None
    THEN Out(ErrorResult("At least one field (title or description) must be provided"),
             store, nid, s)
    ELSE UpdateResolved(store, nid, s, clock,
                        ResolveReference(store, s, ord, user_id, task_id, old_title),
                        title, description)

-----------------------------------------------------------------------------
(* The dispatcher (services/tool_executor.py)                              *)

\* parameters.get(key)
Get(parameters, key) ==
    IF key \in DOMAIN parameters THEN parameters[key] ELSE None

ToolNames == { "add_task", "list_tasks", "complete_task", "delete_task",
               "update_task" }

\* the keys a tool reads with parameters[...]: a missing one raises KeyError
RequiredKeys(tool_name) ==
    IF tool_name = "add_task" THEN { "user_id", "title" } ELSE { "user_id" }

Dispatch(store, nid, s, clock, ord, tool_name, parameters) ==
    CASE tool_name = "add_task" ->
            add_task(store, nid, s, clock, ord, parameters["user_id"],
                     parameters["title"], Get(parameters, "description"))
      [] tool_name = "list_tasks" ->
            list_tasks(store, nid, s, ord, parameters["user_id"],
                       IF "status" \in DOMAIN parameters
                       THEN parameters["status"] ELSE "all")
      [] tool_name = "complete_task" ->
            complete_task(store, nid, s, clock, ord, parameters["user_id"],
                          Get(parameters, "task_id"), Get(parameters, "title"))
      [] tool_name = "delete_task" ->
            delete_task(store, nid, s, ord, parameters["user_id"],
                        Get(parameters, "task_id"), Get(parameters, "title"))
      [] tool_name = "update_task" ->
            update_task(store, nid, s, clock, ord, parameters["user_id"],
                        Get(parameters, "task_id"), Get(parameters, "old_title"),
                        Get(parameters, "title"), Get(parameters, "description"))

\* except ValueError / except Exception: a raised exception becomes an error
\* result
Caught(out) ==
    IF out.raised
    THEN Out(ErrorResult("Tool execution failed"), out.tasks, out.next_id, out.sess)
    ELSE out

\* a tool name that holds a lone surrogate code point, as json.loads gives
\* for the escape \ud800
LoneSurrogate == "\\ud800"

\* print(text) on the UTF-8 stdout that main.py configures: a surrogate code
\* point cannot be encoded and print raises UnicodeEncodeError
Encodable(text) == text # LoneSurrogate

\* execute_tool: line 25 prints the tool name before the try statement is
\* entered; from there on every exception becomes an error result
execute_tool(store, nid, s, clock, ord, tool_name, parameters) ==
    IF ~Encodable(tool_name)
    THEN Raise("UnicodeEncodeError", store, nid, s)
    ELSE IF tool_name \notin ToolNames
    THEN Out(ErrorResult("Unknown tool"), store, nid, s)
    ELSE IF ~(RequiredKeys(tool_name) \subseteq DOMAIN parameters)
    THEN Out(ErrorResult("Tool execution failed: KeyError"), store, nid, s)
    ELSE Caught(Dispatch(store, nid, s, clock, ord, tool_name, parameters))

-----------------------------------------------------------------------------
(* Bounds of the model                                                     *)

MaxTasks == 2       \* ids the tasks sequence hands out

MaxConvs == 1       \* conversation ids

MaxMsgs == 2        \* rows of table messages

MaxClock == 1       \* ticks of the clock

MaxChatConvs == 3   \* conversation ids of the chat specification

MaxNewMsgs == 2     \* rows the chat specification adds to table messages

Users == { "u1", "u2" }

Reqs == { "r1", "r2" }

\* the chat request of the specifications that run one turn at a time
Alone == { "r1" }

\* the toggle requests that may be in flight together
Patches == { "p1", "p2" }

ConvIds == 1..MaxConvs

-----------------------------------------------------------------------------
(* The chat turn (routers/chat.py)                                         *)

NoRequest == [user_id |-> "", token_user_id |-> "", message |-> "",
              conversation_id |-> 0, conversation |-> 0]

NoResponse == [status |-> 0]

\* nothing was exchanged with co.chat: tool_calls are the tool calls of the
\* first answer (cohere_response.tool_calls), chats the arguments of each
\* co.chat invocation
NoExchange == [tool_calls |-> << >>, chats |-> << >>]

\* Conversation ids are numbers that stand for UUID texts; 0 stands for no
\* conversation_id, a negative number for a text that is no UUID.
IsUuid(conversation_id) == conversation_id > 0

\* a row lock taken by the autoflush of some open session
Locked(id) == \E r \in Reqs : id \in DOMAIN sess[r].flushed

\* the request ends in an HTTP error; its session is closed, which rolls
\* back what was flushed and not committed
Fail(r, code) ==
    /\ response' = [response EXCEPT ![r] = [status |-> code]]
    /\ pc' = [pc EXCEPT ![r] = "done"]
    /\ sess' = [sess EXCEPT ![r] = CleanSession]

\* lines 67-75: the conversation of that id and owner, or no row
FindConversation(convs, conversation_id, user_id) ==
    IF /\ conversation_id \in DOMAIN convs
       /\ convs[conversation_id].user_id = user_id
    THEN conversation_id
    ELSE 0

\* CreateConversation that leaves out the owner
CreateConversationUnowned(convs, fresh, user_id, clock) ==
    [c \in DOMAIN convs \cup {fresh} |->
        IF c = fresh
        THEN [user_id |-> "", created_at |-> clock, updated_at |-> clock]
        ELSE convs[c]]

\* lines 77-87: a conversation is created and committed at once
CreateConversation(convs, fresh, user_id, clock) ==
    [c \in DOMAIN convs \cup {fresh} |->
        IF c = fresh
        THEN [user_id |-> user_id, created_at |-> clock, updated_at |-> clock]
        ELSE convs[c]]

\* the request is accepted: it holds its conversation and calls the model
Accept(r, user_id, message, conversation_id, conversation) ==
    /\ req' = [req EXCEPT ![r] =
                [user_id |-> user_id, token_user_id |-> user_id,
                 message |-> message, conversation_id |-> conversation_id,
                 conversation |-> conversation]]
    /\ pc' = [pc EXCEPT ![r] = "model1"]
    /\ sess' = [sess EXCEPT ![r] = CleanSession]
    /\ response' = [response EXCEPT ![r] = NoResponse]

\* the request is refused with an HTTP error
Refuse(r, user_id, token_user_id, message, conversation_id, code) ==
    /\ req' = [req EXCEPT ![r] =
                [user_id |-> user_id, token_user_id |-> token_user_id,
                 message |-> message, conversation_id |-> conversation_id,
                 conversation |-> 0]]
    /\ Fail(r, code)
    /\ UNCHANGED conversations

\* lines 56-87: identity check, then the conversation is fetched, or created
\* with the id uuid4() gives (fresh) and committed at once.  The comparison
\* of the UUID column with a text that is no UUID makes the query raise,
\* which except Exception (219-223) turns into status 500.
ChatBegin(r, user_id, token_user_id, message, conversation_id, fresh) ==
    /\ pc[r] \in { "idle", "done" }
    /\ calls' = [calls EXCEPT ![r] = << >>]
    /\ tool_results' = [tool_results EXCEPT ![r] = << >>]
    /\ cohere' = [cohere EXCEPT ![r] = NoExchange]
    /\ IF token_user_id # user_id
       THEN /\ fresh = 0
            /\ Refuse(r, user_id, token_user_id, message, conversation_id, 403)
       ELSE IF conversation_id # 0
       THEN /\ fresh = 0
            /\ IF ~IsUuid(conversation_id)
               THEN Refuse(r, user_id, token_user_id, message, conversation_id, 500)
               ELSE IF FindConversation(conversations, conversation_id, user_id) = 0
               THEN Refuse(r, user_id, token_user_id, message, conversation_id, 404)
               ELSE /\ Accept(r, user_id, message, conversation_id, conversation_id)
                    /\ UNCHANGED conversations
       ELSE /\ IsUuid(fresh)
            /\ fresh \notin DOMAIN conversations
            /\ Accept(r, user_id, message, conversation_id, fresh)
            /\ conversations' =
                  CreateConversation(conversations, fresh, user_id, now)
    /\ UNCHANGED << tasks, next_id, messages, now, toggles, pending >>

\* line 94: LIMIT of the history query
HistoryLimit == 50

\* line 92: the rows of the conversation, as indexes of table messages
Rows(msgs, conversation) ==
    { i \in DOMAIN msgs : msgs[i].conversation_id = conversation }

\* line 93, ORDER BY created_at ASC: row i comes before row j.  The order of
\* rows of one created_at is the database's choice: with ties they come in
\* insertion order, without against it.
Earlier(msgs, i, j, ties) ==
    \/ msgs[i].created_at < msgs[j].created_at
    \/ /\ msgs[i].created_at = msgs[j].created_at
       /\ IF ties THEN i < j ELSE i > j

\* the number of rows of rows that come before row i
Rank(msgs, rows, i, ties) ==
    Cardinality({ j \in rows : Earlier(msgs, j, i, ties) })

\* the first limit rows of rows in ascending created_at order
Ascending(msgs, rows, ties, limit) ==
    [k \in 1..(IF Cardinality(rows) < limit THEN Cardinality(rows) ELSE limit) |->
        msgs[CHOOSE i \in rows : Rank(msgs, rows, i, ties) = k - 1]]

\* lines 90-95: select(Message).where(conversation_id == conversation.id)
\* .order_by(created_at.asc()).limit(50)
History(msgs, conversation, ties) ==
    Ascending(msgs, Rows(msgs, conversation), ties, HistoryLimit)

\* format_messages_for_cohere keeps the messages of role user and assistant
FormatKeeps(msg) == msg.role \in { "user", "assistant" }

\* format_messages_for_cohere: USER and CHATBOT entries, in the given order
format_messages_for_cohere(msgs) ==
    [i \in DOMAIN SelectSeq(msgs, FormatKeeps) |->
        [role |-> IF SelectSeq(msgs, FormatKeeps)[i].role = "user"
                  THEN "USER" ELSE "CHATBOT",
         message |-> SelectSeq(msgs, FormatKeeps)[i].content]]

\* one invocation of co.chat: its chat_history and tool_results arguments
CoChat(chat_history, results) ==
    [chat_history |-> chat_history, tool_results |-> results]

\* lines 89-116: history is loaded and the model is called with it; its
\* answer is any list cs of tool calls
ModelCall1(r, cs) ==
    /\ pc[r] = "model1"
    /\ calls' = [calls EXCEPT ![r] = cs]
    /\ \E ties \in BOOLEAN :
          cohere' = [cohere EXCEPT ![r] =
             [tool_calls |-> cs,
              chats |-> << CoChat(format_messages_for_cohere(
                                     History(messages, req[r].conversation, ties)),
                                  << >>) >>]]
    /\ pc' = [pc EXCEPT ![r] = IF cs = << >> THEN "persist" ELSE "tools"]
    /\ UNCHANGED << tasks, next_id, conversations, messages, now, toggles, pending, req, sess,
                    tool_results, response >>

\* ModelFails with the user message stored before the model is called
ModelFailsStoring(r) ==
    /\ pc[r] \in { "model1", "model2" }
    /\ Fail(r, 500)
    /\ calls' = [calls EXCEPT ![r] = << >>]
    /\ tool_results' = [tool_results EXCEPT ![r] = << >>]
    /\ cohere' = [cohere EXCEPT ![r] = NoExchange]
    /\ messages' = Append(messages,
                          [id |-> Len(messages) + 1,
                           conversation_id |-> req[r].conversation,
                           role |-> "user", content |-> req[r].message,
                           tool_calls |-> << >>, created_at |-> now])
    /\ UNCHANGED << tasks, next_id, conversations, now, toggles, pending, req >>

\* co.chat raises (timeout, network, API error): except Exception -> 500
ModelFails(r) ==
    /\ pc[r] \in { "model1", "model2" }
    /\ Fail(r, 500)
    /\ calls' = [calls EXCEPT ![r] = << >>]
    /\ tool_results' = [tool_results EXCEPT ![r] = << >>]
    /\ cohere' = [cohere EXCEPT ![r] = NoExchange]
    /\ UNCHANGED << tasks, next_id, conversations, messages, now, toggles, pending, req >>

\* ToolParams without line 130: a user_id the model gave is kept
ToolParamsKept(call, user_id) ==
    [k \in DOMAIN call.parameters \cup { "user_id" } |->
        IF k \in DOMAIN call.parameters THEN call.parameters[k] ELSE user_id]

\* lines 125-130: the parameters are copied and user_id is set from the path
ToolParams(call, user_id) ==
    [k \in DOMAIN call.parameters \cup { "user_id" } |->
        IF k = "user_id" THEN user_id ELSE call.parameters[k]]

\* lines 135-145: the result is collected; out is what execute_tool left.
\* An exception that execute_tool raised ends the request in
\* except Exception (219-223) with status 500.
Collect(r, call, tool_params, out) ==
    /\ out.next_id <= MaxTasks + 1
    /\ IF out.raised
       THEN /\ Fail(r, 500)
            /\ calls' = [calls EXCEPT ![r] = << >>]
            /\ tool_results' = [tool_results EXCEPT ![r] = << >>]
            /\ cohere' = [cohere EXCEPT ![r] = NoExchange]
            /\ UNCHANGED << tasks, next_id >>
       ELSE /\ tasks' = out.tasks
            /\ next_id' = out.next_id
            /\ sess' = [sess EXCEPT ![r] = out.sess]
            /\ tool_results' = [tool_results EXCEPT ![r] =
                  Append(@, [call |-> [name |-> call.name, parameters |-> tool_params],
                             outputs |-> << out.result >>])]
            /\ calls' = [calls EXCEPT ![r] = Tail(@)]
            /\ pc' = [pc EXCEPT ![r] =
                         IF Tail(calls[r]) = << >> THEN "model2" ELSE "tools"]
            /\ UNCHANGED << response, cohere >>

\* lines 123-145: the next tool call is dispatched and its result collected
ToolCall(r) ==
    /\ pc[r] = "tools"
    /\ calls[r] # << >>
    /\ \E ord \in Orders(DOMAIN tasks) :
          Collect(r, Head(calls[r]), ToolParams(Head(calls[r]), req[r].user_id),
                  execute_tool(tasks, next_id, sess[r], now, ord,
                               Head(calls[r]).name,
                               ToolParams(Head(calls[r]), req[r].user_id)))
    /\ UNCHANGED << conversations, messages, now, toggles, pending, req >>

\* lines 28-68 of add_task as a step of its own: the title passed the checks
\* and the lookup of lines 61-68 found no task of that title; the row is not
\* inserted yet.  The calls that end otherwise write nothing and are steps
\* of ToolCall.
AddLookup(r) ==
    /\ pc[r] = "tools"
    /\ calls[r] # << >>
    /\ Head(calls[r]).name = "add_task"
    /\ \E ord \in Orders(DOMAIN tasks) :
          LET out == execute_tool(tasks, next_id, sess[r], now, ord,
                                  Head(calls[r]).name,
                                  ToolParams(Head(calls[r]), req[r].user_id))
          IN  /\ ~out.raised
              /\ out.result.status = "success"
    /\ pc' = [pc EXCEPT ![r] = "insert"]
    /\ sess' = [sess EXCEPT ![r] = Flushed(@)]
    /\ UNCHANGED << tasks, next_id, conversations, messages, now, toggles, pending, req,
                    calls, tool_results, response, cohere >>

\* lines 84-114 of add_task after AddLookup: the row is inserted with the
\* next id of the sequence and committed, whatever was committed since the
\* lookup
AddInserted(store, nid, s, clock, parameters) ==
    IF QueryFails(store, s)
    THEN Out([status |-> "error", error |-> "Failed to add task",
              details |-> ExcName(store, s)], store, nid, CleanSession)
    ELSE AddChecked(store, View(store, s), nid, s, clock, 0,
                    parameters["user_id"], Strip(parameters["title"]),
                    IF Truthy(Get(parameters, "description"))
                    THEN Strip(Get(parameters, "description")) ELSE None)

AddInsert(r) ==
    /\ pc[r] = "insert"
    /\ Collect(r, Head(calls[r]), ToolParams(Head(calls[r]), req[r].user_id),
               AddInserted(tasks, next_id, sess[r], now,
                           ToolParams(Head(calls[r]), req[r].user_id)))
    /\ UNCHANGED << conversations, messages, now, toggles, pending, req >>

\* ModelCall2 with the tool calls of the second answer dispatched
ModelCall2Dispatching(r, cs) ==
    /\ pc[r] = "model2"
    /\ cohere' = [cohere EXCEPT ![r].chats =
                     Append(@, CoChat(<< >>, tool_results[r]))]
    /\ calls' = [calls EXCEPT ![r] = cs]
    /\ pc' = [pc EXCEPT ![r] = IF cs = << >> THEN "persist" ELSE "tools"]
    /\ UNCHANGED << tasks, next_id, conversations, messages, now, toggles, pending, req, sess,
                    tool_results, response >>

\* lines 153-165: the second model call gets the message and tool_results
\* and no chat_history; its text is the final reply, and the tool calls cs of
\* its answer are not looked at
ModelCall2(r, cs) ==
    /\ pc[r] = "model2"
    /\ cohere' = [cohere EXCEPT ![r].chats =
                     Append(@, CoChat(<< >>, tool_results[r]))]
    /\ pc' = [pc EXCEPT ![r] = "persist"]
    /\ UNCHANGED << tasks, next_id, conversations, messages, now, toggles, pending, req, sess,
                    calls, tool_results, response >>

\* Summary with the order of the calls reversed
SummaryReversed(results) ==
    [i \in DOMAIN results |->
        [name |-> results[Len(results) + 1 - i].call.name,
         status |-> results[Len(results) + 1 - i].outputs[1].status]]

\* json.dumps(tool_results) and the ToolCallResult list of the response: the
\* model keeps, per call and in order, the tool's name and the result's status
Summary(results) ==
    [i \in DOMAIN results |->
        [name |-> results[i].call.name, status |-> results[i].outputs[1].status]]

\* StoreMessages with the user message only
StoreUserMessage(msgs, user_message, assistant_message) ==
    Append(msgs, user_message)

\* StoreMessages with the rows of earlier turns dropped
StoreLatest(msgs, user_message, assistant_message) ==
    << user_message, assistant_message >>

\* lines 180, 191 and 197: both messages are added to the session and
\* inserted by the one commit
StoreMessages(msgs, user_message, assistant_message) ==
    msgs \o << user_message, assistant_message >>

\* lines 171-217: both messages and the conversation's updated_at are
\* committed by one session.commit(), which flushes whatever else the
\* session holds; created_at is the time at which the user message was made
Persisted(r, created_at) ==
    /\ IF QueryFails(tasks, sess[r])
       THEN /\ Fail(r, 500)
            /\ UNCHANGED << tasks, conversations, messages >>
       ELSE LET c == req[r].conversation
                n == Len(messages)
                user_message ==
                    [id |-> n + 1, conversation_id |-> c, role |-> "user",
                     content |-> req[r].message, tool_calls |-> << >>,
                     created_at |-> created_at]
                assistant_message ==
                    [id |-> n + 2, conversation_id |-> c, role |-> "assistant",
                     content |-> "reply", tool_calls |-> Summary(tool_results[r]),
                     created_at |-> now]
            IN  /\ messages' = StoreMessages(messages, user_message,
                                             assistant_message)
                /\ conversations' = [conversations EXCEPT ![c].updated_at = now]
                /\ tasks' = View(tasks, sess[r])
                /\ sess' = [sess EXCEPT ![r] = CleanSession]
                /\ response' = [response EXCEPT ![r] =
                      [status |-> 200, message |-> "reply",
                       tool_calls |-> Summary(tool_results[r]),
                       conversation_id |-> c, message_id |-> n + 2]]
                /\ pc' = [pc EXCEPT ![r] = "done"]
    /\ tool_results' = [tool_results EXCEPT ![r] = << >>]
    /\ cohere' = [cohere EXCEPT ![r] = NoExchange]
    /\ UNCHANGED << next_id, now, toggles, req, calls >>

\* lines 171-217 in one step: both messages are made at the same time of
\* the clock
Persist(r) ==
    /\ pc[r] = "persist"
    /\ Persisted(r, now)
    /\ UNCHANGED pending

\* lines 171-180 as a step of its own: the user message is made and added
\* to the session
PersistUser(r) ==
    /\ pc[r] = "persist"
    /\ pending' = [pending EXCEPT ![r] = << now >>]
    /\ pc' = [pc EXCEPT ![r] = "commit"]
    /\ UNCHANGED << tasks, next_id, conversations, messages, now, toggles, req,
                    sess, calls, tool_results, response, cohere >>

\* lines 182-217 after PersistUser: the assistant message is made and both
\* are committed
PersistCommit(r) ==
    /\ pc[r] = "commit"
    /\ Persisted(r, pending[r][1])
    /\ pending' = [pending EXCEPT ![r] = << >>]

\* datetime.utcnow() moves on; the specifications below hold the clock still
Tick ==
    /\ now < MaxClock
    /\ now' = now + 1
    /\ UNCHANGED << tasks, next_id, conversations, messages, pc, req, sess,
                    calls, tool_results, response, cohere, toggles,
                    pending >>

-----------------------------------------------------------------------------
(* The HTTP task endpoints (routes/tasks.py).  Each runs in a session of   *)
(* its own and is one transaction; its reply is a function of the          *)
(* committed rows and the request.                                         *)

\* verify_user_access without the comparison
NeverForbidden(user_id, current_user) == FALSE

\* verify_user_access
Forbidden(user_id, current_user) == user_id # current_user

Reply(status, body) == [status |-> status, body |-> body]

\* Owned without the comparison of task.user_id
OwnedAny(store, task_id, current_user) == task_id \in DOMAIN store

\* session.get(Task, task_id) followed by the ownership check
Owned(store, task_id, current_user) ==
    task_id \in DOMAIN store /\ store[task_id].user_id = current_user

HttpListFilter(store, current_user, status_filter) ==
    { id \in DOMAIN store :
        /\ store[id].user_id = current_user
        /\ (status_filter = "completed" => store[id].completed)
        /\ (status_filter = "pending" => ~store[id].completed) }

\* GET /{user_id}/tasks: sort is "created_at", or a value other than "title"
\* and "created_at", which selects no ORDER BY: the rows come in scan order
HttpListRows(store, S, sort, ord) ==
    IF sort = "created_at" THEN NewestFirst(store, S, ord) ELSE InOrder(S, ord)

HttpListBody(store, rows) ==
    [i \in DOMAIN rows |-> TaskDict(rows[i], store[rows[i]])]

HttpListReply(store, user_id, current_user, status_filter, sort, ord) ==
    IF Forbidden(user_id, current_user) THEN Reply(403, << >>)
    ELSE Reply(200,
               HttpListBody(store,
                            HttpListRows(store,
                                         HttpListFilter(store, current_user,
                                                        status_filter),
                                         sort, ord)))

HttpList(user_id, current_user, status_filter, sort) ==
    /\ \E ord \in Orders(DOMAIN tasks) :
          HttpListReply(tasks, user_id, current_user, status_filter, sort,
                        ord).status \in { 200, 403 }
    /\ UNCHANGED vars

\* GET /{user_id}/tasks/{task_id}
HttpGetReply(store, user_id, current_user, task_id) ==
    IF Forbidden(user_id, current_user) THEN Reply(403, << >>)
    ELSE IF ~Owned(store, task_id, current_user) THEN Reply(404, << >>)
    ELSE Reply(200, << TaskDict(task_id, store[task_id]) >>)

HttpGet(user_id, current_user, task_id) ==
    /\ HttpGetReply(tasks, user_id, current_user, task_id).status
           \in { 200, 403, 404 }
    /\ UNCHANGED vars

\* the status of the endpoints that address one task and write it
HttpWriteStatus(store, user_id, current_user, task_id, ok) ==
    IF Forbidden(user_id, current_user) THEN 403
    ELSE IF ~Owned(store, task_id, current_user) THEN 404
    ELSE ok

\* Task(user_id=..., title=..., description=...): the fields the caller
\* leaves out take the defaults of the Task model, which is incomplete and
\* stamped with the current time
NewTask(user_id, title, description, clock) ==
    [user_id |-> user_id, title |-> title, description |-> description,
     completed |-> FALSE, created_at |-> clock, updated_at |-> clock]

\* POST /{user_id}/tasks: the rows after the request
HttpCreateRows(store, nid, clock, user_id, current_user, title, description) ==
    IF Forbidden(user_id, current_user) THEN store
    ELSE [id \in DOMAIN store \cup {nid} |->
            IF id = nid THEN NewTask(current_user, title, description, clock)
            ELSE store[id]]

HttpCreate(user_id, current_user, title, description) ==
    /\ next_id <= MaxTasks
    /\ tasks' = HttpCreateRows(tasks, next_id, now, user_id, current_user,
                               title, description)
    /\ next_id' = IF Forbidden(user_id, current_user) THEN next_id ELSE next_id + 1
    /\ UNCHANGED << conversations, messages, now, toggles, pending, pc, req, sess, calls,
                    tool_results, response, cohere >>

\* the fields of TaskUpdate that are not None are assigned
HttpUpdatedRow(old, clock, task_data) ==
    [user_id |-> old.user_id,
     title |-> IF "title" \in DOMAIN task_data
               THEN task_data["title"] ELSE old.title,
     description |-> IF "description" \in DOMAIN task_data
                     THEN task_data["description"] ELSE old.description,
     completed |-> IF "completed" \in DOMAIN task_data
                   THEN task_data["completed"] ELSE old.completed,
     created_at |-> old.created_at, updated_at |-> clock]

\* PUT /{user_id}/tasks/{task_id}: the rows after the request
HttpUpdateRows(store, clock, user_id, current_user, task_id, task_data) ==
    IF HttpWriteStatus(store, user_id, current_user, task_id, 200) # 200
    THEN store
    ELSE [store EXCEPT ![task_id] = HttpUpdatedRow(@, clock, task_data)]

\* a request that writes a row waits while a chat session holds its lock
Waits(user_id, current_user, task_id) ==
    /\ ~Forbidden(user_id, current_user)
    /\ Owned(tasks, task_id, current_user)
    /\ Locked(task_id)

HttpUpdate(user_id, current_user, task_id, task_data) ==
    /\ ~Waits(user_id, current_user, task_id)
    /\ tasks' = HttpUpdateRows(tasks, now, user_id, current_user, task_id,
                               task_data)
    /\ UNCHANGED << next_id, conversations, messages, now, toggles, pending, pc, req, sess,
                    calls, tool_results, response, cohere >>

\* DELETE /{user_id}/tasks/{task_id}: the rows after the request
HttpDeleteRows(store, user_id, current_user, task_id) ==
    IF HttpWriteStatus(store, user_id, current_user, task_id, 204) # 204
    THEN store
    ELSE [id \in DOMAIN store \ {task_id} |-> store[id]]

HttpDelete(user_id, current_user, task_id) ==
    /\ ~Waits(user_id, current_user, task_id)
    /\ tasks' = HttpDeleteRows(tasks, user_id, current_user, task_id)
    /\ UNCHANGED << next_id, conversations, messages, now, toggles, pending, pc, req, sess,
                    calls, tool_results, response, cohere >>

\* PATCH /{user_id}/tasks/{task_id}/complete: the rows after the request
HttpToggleRows(store, clock, user_id, current_user, task_id) ==
    IF HttpWriteStatus(store, user_id, current_user, task_id, 200) # 200
    THEN store
    ELSE [store EXCEPT ![task_id] =
             [@ EXCEPT !.completed = ~@, !.updated_at = clock]]

HttpToggle(user_id, current_user, task_id) ==
    /\ ~Waits(user_id, current_user, task_id)
    /\ tasks' = HttpToggleRows(tasks, now, user_id, current_user, task_id)
    /\ UNCHANGED << next_id, conversations, messages, now, toggles, pending, pc, req, sess,
                    calls, tool_results, response, cohere >>

\* no toggle request is between its read and its commit
NoToggle == [task_id |-> 0, completed |-> FALSE]

\* lines 225-227 of toggle_complete: session.get(Task, task_id) loads the
\* row, and the request goes on when it is the caller's
ToggleRead(p, user_id, current_user, task_id) ==
    /\ toggles[p] = NoToggle
    /\ HttpWriteStatus(tasks, user_id, current_user, task_id, 200) = 200
    /\ toggles' = [toggles EXCEPT ![p] =
                      [task_id |-> task_id,
                       completed |-> tasks[task_id].completed]]
    /\ UNCHANGED << tasks, next_id, conversations, messages, now, pc, req,
                    sess, calls, tool_results, response, cohere, pending >>

\* lines 229-232: the negation of the value that was read is assigned and
\* the commit writes it with UPDATE ... WHERE id = task_id; a row deleted
\* since the read makes the commit fail
ToggleCommitted(store, clock, toggle) ==
    IF toggle.task_id \notin DOMAIN store THEN store
    ELSE [store EXCEPT ![toggle.task_id] =
             [@ EXCEPT !.completed = ~toggle.completed, !.updated_at = clock]]

ToggleWrite(p) ==
    /\ toggles[p] # NoToggle
    /\ ~Locked(toggles[p].task_id)
    /\ tasks' = ToggleCommitted(tasks, now, toggles[p])
    /\ toggles' = [toggles EXCEPT ![p] = NoToggle]
    /\ UNCHANGED << next_id, conversations, messages, now, pc, req, sess,
                    calls, tool_results, response, cohere, pending >>

-----------------------------------------------------------------------------
(* Inputs                                                                  *)

MakeDinner == << "m", "a", "k", "e", " ", "d", "i", "n", "n", "e", "r" >>

MkeDinner == << "m", "k", "e", " ", "d", "i", "n", "n", "e", "r" >>

Dinner == << "d", "i", "n", "n", "e", "r" >>

BuyMilk == << "b", "u", "y", " ", "m", "i", "l", "k" >>

\* a description one character over the limit
LongDescription == [i \in 1..(MaxDescriptionLen + 1) |-> "x"]

Call(name, parameters) == [name |-> name, parameters |-> parameters]

\* the answers of the model that hold one call of pool
Single(pool) == { << c >> : c \in pool }

\* One call of each tool and one of an unknown name, each naming user u2 as
\* the model might.
AddCall == Call("add_task", [user_id |-> "u2", title |-> MkeDinner])

ListCall == Call("list_tasks", [user_id |-> "u2"])

CompleteCall == Call("complete_task", [user_id |-> "u2", task_id |-> << "1" >>])

DeleteCall == Call("delete_task", [user_id |-> "u2", title |-> Dinner])

UpdateCall ==
    Call("update_task", [user_id |-> "u2", task_id |-> << "2" >>,
                         description |-> Dinner])

\* an update with a valid new title and a description that is too long
UpdateTooLong ==
    Call("update_task", [task_id |-> << "1" >>, title |-> MkeDinner,
                         description |-> LongDescription])

BogusCall == Call("bogus", [user_id |-> "u2"])

\* a call whose name cannot be printed
SurrogateCall == Call(LoneSurrogate, [user_id |-> "u2"])

GeneralAnswers ==
    { << >>, << UpdateTooLong, ListCall >> }
    \cup Single({ AddCall, ListCall, CompleteCall, DeleteCall, UpdateCall,
                  UpdateTooLong, BogusCall, SurrogateCall })

GeneralTitles == { MakeDinner }

\* Title fragments: one that both dinner titles contain, one in upper case
\* that only "mke dinner" contains, and one with the LIKE wildcard _ that no
\* title contains.
Mke == << "M", "K", "E" >>

M_ke == << "m", "_", "k", "e" >>

Fragments == { Dinner, Mke, M_ke }

CompleteByTitle(f) == Call("complete_task", [title |-> f])

DeleteByTitle(f) == Call("delete_task", [title |-> f])

UpdateByTitle(f) == Call("update_task", [old_title |-> f, description |-> Dinner])

\* an id that resolves to no task, with a fragment
CompleteUnknownId == Call("complete_task", [task_id |-> << "9" >>, title |-> Mke])

MatchAnswers ==
    { << CompleteByTitle(Dinner), DeleteByTitle(Dinner) >> }
    \cup Single({ CompleteByTitle(f) : f \in Fragments })
    \cup Single({ DeleteByTitle(f) : f \in Fragments })
    \cup Single({ UpdateByTitle(f) : f \in Fragments })
    \cup Single({ CompleteUnknownId })

MatchTitles == { MakeDinner, MkeDinner }

\* Titles and descriptions for add_task: padded and in upper case, with the
\* LIKE wildcards _ and %, empty, blank, and at and over the length limits.
PaddedUpper ==
    << " ", "M", "A", "K", "E", " ", "D", "I", "N", "N", "E", "R", " " >>

M_keDinner == << "m", "_", "k", "e", " ", "d", "i", "n", "n", "e", "r" >>

MPercent == << "m", "%" >>

Blank == << " ", " " >>

Title255 == [i \in 1..MaxTitleLen |-> "x"]

Title256 == [i \in 1..(MaxTitleLen + 1) |-> "x"]

PaddedTitle255 == << " " >> \o Title255

Description1000 == [i \in 1..MaxDescriptionLen |-> "x"]

PaddedDescription1000 == Description1000 \o << " " >>

AddTitle(t) == Call("add_task", [title |-> t])

AddDescribed(d) == Call("add_task", [title |-> BuyMilk, description |-> d])

AddNoTitle == Call("add_task", [description |-> Dinner])

AddAnswers ==
    { << AddTitle(Title256), AddTitle(Title255) >> }
    \cup Single({ AddTitle(t) :
                    t \in { PaddedUpper, M_keDinner, MPercent, << >>, Blank,
                            Title255, Title256, PaddedTitle255 } })
    \cup Single({ AddDescribed(d) :
                    d \in { << >>, Description1000, LongDescription,
                            PaddedDescription1000 } })
    \cup Single({ AddNoTitle })

AddTitles == { MakeDinner, M_keDinner }

TaskIds == 1..MaxTasks

\* Calls of update_task by id: with one field, with none, with an empty or
\* blank title, with an empty description.
UpdateById(id, fields) == Call("update_task", [task_id |-> id] @@ fields)

UpdateFields ==
    { [title |-> PaddedUpper], [description |-> Dinner], [description |-> << >>],
      [title |-> << >>], [title |-> Blank],
      [title |-> MkeDinner, description |-> << >>],
      [title |-> << >>, description |-> Dinner],
      [title |-> MkeDinner, description |-> Blank] }

UpdateAnswers ==
    { << UpdateById(<< "1" >>, [description |-> Dinner]),
         UpdateById(<< "1" >>, [title |-> PaddedUpper]) >> }
    \cup Single({ UpdateById(<< "1" >>, f) :
                    f \in { [description |-> << >>], [title |-> << >>],
                            [title |-> Blank], << >> } })
    \cup Single({ AddTitle(MkeDinner), UpdateTooLong })

UpdateTitles == { MakeDinner }

\* Calls that name their task by id: twice the same complete, a delete and
\* then a complete of the deleted id, an id that is no number beside a
\* fragment, no reference at all, and a list.
CompleteById(id) == Call("complete_task", [task_id |-> id])

DeleteById(id) == Call("delete_task", [task_id |-> id])

CompleteNotNumeric == Call("complete_task", [task_id |-> << "x" >>, title |-> Dinner])

CompleteNoReference == Call("complete_task", << >>)

ResolveAnswers ==
    { << CompleteById(<< "1" >>), CompleteById(<< "1" >>) >>,
      << DeleteById(<< "1" >>), CompleteById(<< "1" >>) >> }
    \cup Single({ CompleteNotNumeric, CompleteNoReference,
                  Call("list_tasks", << >>) })

ResolveTitles == { MakeDinner }

\* One turn that adds "buy milk", lists, completes by the fragment "milk",
\* deletes by id and lists again.
Milk == << "m", "i", "l", "k" >>

ListAll == Call("list_tasks", << >>)

Scenario(id) ==
    << AddTitle(BuyMilk), ListAll, CompleteByTitle(Milk), DeleteById(id), ListAll >>

ScenarioAnswers == { Scenario(StrOfInt(id)) : id \in TaskIds }

\* Answers of the chat specification: no tool call, two calls of which one
\* lists what the other adds, and calls whose dispatch raises.
ChatAnswers ==
    { << >>, << AddCall, ListCall >>, << ListCall, AddCall >>,
      << SurrogateCall >>, << AddCall, SurrogateCall >> }

\* a conversation_id that is no UUID
MalformedIds == { -1 }

\* The stores the chat specification starts from are what earlier turns
\* left: count messages of conversation 1 of u1, after one turn of
\* conversation 2 of u2 if other; each turn stored its two messages at an
\* instant of its own, the last turn at -1, and every content differs.
Stores ==
    { << 0, FALSE >>, << 2, TRUE >>, << HistoryLimit, FALSE >>,
      << HistoryLimit + 2, TRUE >> }

StoredLen(count, other) == count + (IF other THEN 2 ELSE 0)

StoredAt(i, len) == ((i + 1) \div 2) - (len \div 2) - 1

StoredMessages(count, other) ==
    [i \in 1..StoredLen(count, other) |->
        [id |-> i,
         conversation_id |-> IF other /\ i <= 2 THEN 2 ELSE 1,
         role |-> IF i % 2 = 1 THEN "user" ELSE "assistant",
         content |-> ToString(i),
         tool_calls |-> << >>,
         created_at |-> StoredAt(i, StoredLen(count, other))]]

StoredConversations(count, other) ==
    [c \in (IF count > 0 THEN { 1 } ELSE { }) \cup (IF other THEN { 2 } ELSE { }) |->
        [user_id |-> IF c = 1 THEN "u1" ELSE "u2",
         created_at |-> StoredAt(IF c = 1 /\ other THEN 3 ELSE 1,
                                 StoredLen(count, other)),
         updated_at |-> IF c = 1 THEN -1
                        ELSE StoredAt(2, StoredLen(count, other))]]

-----------------------------------------------------------------------------
(* Specification                                                           *)

Init ==
    /\ tasks = << >>
    /\ next_id = 1
    /\ conversations = << >>
    /\ messages = << >>
    /\ now = 0
    /\ pc = [r \in Reqs |-> "idle"]
    /\ req = [r \in Reqs |-> NoRequest]
    /\ sess = [r \in Reqs |-> CleanSession]
    /\ calls = [r \in Reqs |-> << >>]
    /\ tool_results = [r \in Reqs |-> << >>]
    /\ response = [r \in Reqs |-> NoResponse]
    /\ cohere = [r \in Reqs |-> NoExchange]
    /\ toggles = [p \in Patches |-> NoToggle]
    /\ pending = [r \in Reqs |-> << >>]

\* the steps of a chat turn of a user of users that names a conversation id
\* of named or none, whose model answers with a call list of answers; a new
\* conversation gets an id of unused, and a turn begins while there is room
\* in table messages
Turn(reqs, users, named, unused, answers, room) ==
    \E r \in reqs :
        \/ /\ room
           /\ \E u, t \in users, c \in {0} \cup named, f \in {0} \cup unused :
                 ChatBegin(r, u, t, "hello", c, f)
        \/ \E cs \in answers : ModelCall1(r, cs)
        \/ ModelFails(r)
        \/ ToolCall(r)
        \/ \E cs \in answers : ModelCall2(r, cs)
        \/ Persist(r)

Chat(users, answers) ==
    Turn(Alone, users, ConvIds, ConvIds, answers,
         Len(messages) + 2 <= MaxMsgs)

\* requests to the HTTP task endpoints: who is a pair of path user id and
\* token identity, how a pair of status filter and sort
Http(who, how, titles) ==
    \E w \in who :
        \/ \E h \in how : HttpList(w[1], w[2], h[1], h[2])
        \/ \E t \in titles : HttpCreate(w[1], w[2], t, None)
        \/ \E id \in TaskIds : HttpGet(w[1], w[2], id)
        \/ \E id \in TaskIds, t \in titles :
              HttpUpdate(w[1], w[2], id, [title |-> t])
        \/ \E id \in TaskIds : HttpUpdate(w[1], w[2], id, [completed |-> TRUE])
        \/ \E id \in TaskIds : HttpDelete(w[1], w[2], id)
        \/ \E id \in TaskIds : HttpToggle(w[1], w[2], id)

\* every pair of path user id and token identity
Anyone == Users \X Users

\* requests whose path user id is the token's identity
Authenticated == { << u, u >> : u \in Users }

\* all requests of both users
Next ==
    \/ Chat(Users, GeneralAnswers)
    \/ Http(Anyone, { "all", "completed", "pending" } \X { "created_at", "id" },
            GeneralTitles)

Spec == Init /\ [][Next]_vars

\* chat turns of u1 that name tasks by title fragments, among authenticated
\* HTTP requests of both users
NextMatch ==
    \/ Chat({ "u1" }, MatchAnswers)
    \/ Http(Authenticated, { << "all", "created_at" >> }, MatchTitles)

SpecMatch == Init /\ [][NextMatch]_vars

\* chat turns of u1 that add tasks, among authenticated HTTP requests of both
\* users
NextAdd ==
    \/ Chat({ "u1" }, AddAnswers)
    \/ Http(Authenticated, { << "all", "created_at" >> }, AddTitles)

SpecAdd == Init /\ [][NextAdd]_vars

\* chat turns of u1 that update tasks by id, among authenticated HTTP requests
\* of both users
NextUpdate ==
    \/ Chat({ "u1" }, UpdateAnswers)
    \/ Http(Authenticated, { << "all", "created_at" >> }, UpdateTitles)

SpecUpdate == Init /\ [][NextUpdate]_vars

\* chat turns of u1 that name tasks by id, among authenticated HTTP requests
\* of both users, while the clock moves on
NextResolve ==
    \/ Chat({ "u1" }, ResolveAnswers)
    \/ Http(Authenticated, { << "all", "created_at" >> }, ResolveTitles)
    \/ Tick

SpecResolve == Init /\ [][NextResolve]_vars

\* chat turns of u1 that run the scenario, among HTTP requests of u2
NextScenario ==
    \/ Chat({ "u1" }, ScenarioAnswers)
    \/ Http({ << "u2", "u2" >> }, { << "all", "created_at" >> }, GeneralTitles)

SpecScenario == Init /\ [][NextScenario]_vars

\* the answers of the model in the turns that run together
RaceAnswers == { << >>, << AddCall >> }

\* two chat requests of u1 run together, on the same conversation or on two,
\* while the clock moves on; an add_task call is one step or the two steps
\* AddLookup and AddInsert, and the messages are stored in one step or in
\* the two steps PersistUser and PersistCommit
NextRace ==
    \/ Turn(Reqs, { "u1" }, ConvIds, 1..(MaxConvs + 1), RaceAnswers,
            Len(messages) + 2 <= MaxMsgs)
    \/ \E r \in Reqs : AddLookup(r) \/ AddInsert(r)
    \/ \E r \in Reqs : PersistUser(r) \/ PersistCommit(r)
    \/ Tick

SpecRace == Init /\ [][NextRace]_vars

\* toggle requests of both users run together among requests that create
\* and delete tasks, while the clock moves on
NextToggle ==
    \/ \E w \in Authenticated :
          \/ HttpCreate(w[1], w[2], MakeDinner, None)
          \/ \E id \in TaskIds : HttpDelete(w[1], w[2], id)
          \/ \E p \in Patches, id \in TaskIds : ToggleRead(p, w[1], w[2], id)
    \/ \E p \in Patches : ToggleWrite(p)
    \/ Tick

SpecToggle == Init /\ [][NextToggle]_vars

\* a call of tool name that gives the id of a task and a fragment
ByBoth(name, id, fragment) ==
    Call(name, [task_id |-> id] @@
               (IF name = "update_task"
                THEN [old_title |-> fragment, description |-> Dinner]
                ELSE [title |-> fragment]))

\* Answers that name task 1 by id and add a fragment: one that its title
\* does not contain, one that both dinner titles contain, one that no title
\* contains.
PrecedenceAnswers ==
    Single({ ByBoth(name, << "1" >>, f) :
               name \in { "complete_task", "delete_task", "update_task" },
               f \in { Mke, Dinner, Milk } })

\* chat turns of u1 that name a task by id and fragment, among authenticated
\* HTTP requests of both users that create the two dinner titles
NextPrecedence ==
    \/ Chat({ "u1" }, PrecedenceAnswers)
    \/ Http(Authenticated, { << "all", "created_at" >> }, MatchTitles)

SpecPrecedence == Init /\ [][NextPrecedence]_vars

\* a list call with a status
ListBy(status) == Call("list_tasks", [status |-> status])

\* Answers that list by completed, by incomplete and by the status word of
\* the HTTP endpoint in one turn, or by all.
ListAnswers ==
    { << ListBy("completed"), ListBy("incomplete"), ListBy("pending") >>,
      << ListBy("all") >> }

\* chat turns of u1 that list, among authenticated HTTP requests of both
\* users
NextList ==
    \/ Chat({ "u1" }, ListAnswers)
    \/ Http(Authenticated, { << "all", "created_at" >> }, { MakeDinner })

SpecList == Init /\ [][NextList]_vars

\* Answers in which a call that writes one task follows an update that was
\* refused, and the same calls alone.
FrameAnswers ==
    { << UpdateTooLong, CompleteById(<< "2" >>) >>,
      << UpdateTooLong, DeleteById(<< "2" >>) >>,
      << UpdateTooLong, UpdateById(<< "2" >>, [description |-> Dinner]) >>,
      << UpdateTooLong, CompleteById(<< "1" >>) >> }
    \cup Single({ CompleteById(<< "1" >>), DeleteById(<< "1" >>),
                  UpdateById(<< "1" >>, [description |-> Dinner]) })

\* chat turns of u1 that write tasks by id, among authenticated HTTP requests
\* of both users, while the clock moves on
NextFrame ==
    \/ Chat({ "u1" }, FrameAnswers)
    \/ Http(Authenticated, { << "all", "created_at" >> }, { MakeDinner })
    \/ Tick

SpecFrame == Init /\ [][NextFrame]_vars

\* the chat specification starts with messages that earlier turns stored
InitChat ==
    /\ \E store \in Stores :
          /\ messages = StoredMessages(store[1], store[2])
          /\ conversations = StoredConversations(store[1], store[2])
    /\ tasks = << >>
    /\ next_id = 1
    /\ now = 0
    /\ pc = [r \in Reqs |-> "idle"]
    /\ req = [r \in Reqs |-> NoRequest]
    /\ sess = [r \in Reqs |-> CleanSession]
    /\ calls = [r \in Reqs |-> << >>]
    /\ tool_results = [r \in Reqs |-> << >>]
    /\ response = [r \in Reqs |-> NoResponse]
    /\ cohere = [r \in Reqs |-> NoExchange]
    /\ toggles = [p \in Patches |-> NoToggle]
    /\ pending = [r \in Reqs |-> << >>]

\* the messages stored since the clock was 0
NewMessages == { i \in DOMAIN messages : messages[i].created_at >= 0 }

\* chat turns of both users in old, new, foreign, unknown and malformed
\* conversations, while the clock moves on; the stored conversations have
\* the ids 1 and 2, a new one gets the last id
NextChat ==
    \/ Turn(Alone, Users, (1..MaxChatConvs) \cup MalformedIds, { MaxChatConvs },
            ChatAnswers, Cardinality(NewMessages) + 2 <= MaxNewMsgs)
    \/ Tick

SpecChat == InitChat /\ [][NextChat]_vars

-----------------------------------------------------------------------------
(* Properties                                                              *)

\* s contains f, ignoring case
Contains(s, f) ==
    \E i \in 0..(Len(s) - Len(f)) :
        Lower(SubSeq(s, i + 1, i + Len(f))) = Lower(f)

EqualsIgnoreCase(s, t) == Lower(s) = Lower(t)

\* the rows of store that user_id owns
OwnedBy(store, user_id) ==
    [id \in { i \in DOMAIN store : store[i].user_id = user_id } |-> store[id]]

\* the conversations user_id owns
ConversationsOf(convs, user_id) ==
    [c \in { i \in DOMAIN convs : convs[i].user_id = user_id } |-> convs[c]]

\* the messages of conversations user_id owns
MessagesOf(msgs, convs, user_id) ==
    SelectSeq(msgs, LAMBDA m : /\ m.conversation_id \in DOMAIN convs
                               /\ convs[m.conversation_id].user_id = user_id)

Last(seq) == seq[Len(seq)]

\* the step is a tool call of request r: it appends to tool_results
ToolStep(r) == Len(tool_results'[r]) = Len(tool_results[r]) + 1

\* the step belongs to the chat turn of request r
ChatStep(r) == pc'[r] # pc[r] \/ ToolStep(r) \/ req'[r] # req[r]

\* the ids whose row the step inserts, deletes or changes
Touched ==
    { id \in DOMAIN tasks \cup DOMAIN tasks' :
        \/ id \notin DOMAIN tasks
        \/ id \notin DOMAIN tasks'
        \/ tasks'[id] # tasks[id] }

\* the owner of a row the step touches
OwnerOf(id) ==
    IF id \in DOMAIN tasks' THEN tasks'[id].user_id ELSE tasks[id].user_id

StatusFilters == { "all", "completed", "incomplete" }

HttpFilters == { "all", "completed", "pending" }

HttpSorts == { "created_at", "id" }

\* the result the tool call at the head of calls[r] would give on store
ResultOn(store, r, ord, parameters) ==
    execute_tool(store, next_id, sess[r], now, ord, Head(calls[r]).name,
                 parameters).result

C1ToolCall(r, entry, me) ==
    /\ req[r].user_id = me
    /\ entry.call.parameters["user_id"] = me
    /\ \A id \in Touched : OwnerOf(id) = me
    /\ \E ord \in Orders(DOMAIN tasks) :
          entry.outputs[1] =
              ResultOn(OwnedBy(tasks, me), r, ord,
                       [k \in DOMAIN Head(calls[r]).parameters \cup { "user_id" } |->
                           IF k = "user_id" THEN me
                           ELSE Head(calls[r]).parameters[k]])

\* C1: every tool call of a chat turn is executed with user_id equal to the
\* identity the token authenticated, whatever user_id the model put in the
\* call; the call inserts, changes and deletes only rows of that owner, and
\* its result is the one it gives on that owner's rows alone.
C1_ToolCallsRunAsAuthenticatedOwner ==
    [][\A r \in Reqs :
          ToolStep(r) => C1ToolCall(r, Last(tool_results'[r]), req[r].token_user_id)]_vars

\* a chat turn of u1 has run add_task, for which the model named u2, while
\* u2 owns a task: the new task belongs to u1
C1_Witness ==
    \E r \in Reqs :
        /\ req[r].token_user_id = "u1"
        /\ tool_results[r] # << >>
        /\ tool_results[r][1].call.name = "add_task"
        /\ tool_results[r][1].outputs[1].status = "success"
        /\ \E a, b \in DOMAIN tasks :
              /\ tasks[a].user_id = "u2"
              /\ tasks[b].user_id = "u1"
              /\ StrOfInt(b) = tool_results[r][1].outputs[1].task.id

C2Tool(a, ord, r, status, out) ==
    \/ out.raised
    \/ \A i \in DOMAIN out.result.tasks :
          /\ out.result.tasks[i].user_id = a
          /\ IntOf(out.result.tasks[i].id) \in DOMAIN tasks
          /\ tasks[IntOf(out.result.tasks[i].id)].user_id = a

C2Http(a, reply) ==
    \A i \in DOMAIN reply.body :
        /\ reply.body[i].user_id = a
        /\ IntOf(reply.body[i].id) \in DOMAIN tasks
        /\ tasks[IntOf(reply.body[i].id)].user_id = a

\* C2: in every reachable state, whatever the status filter, the sort and the
\* order in which the rows come back, the list tool and the HTTP list
\* endpoint called under owner a return only tasks that a owns.
C2_ListReturnsOnlyOwnTasks ==
    \A a \in Users, ord \in Orders(DOMAIN tasks) :
        /\ \A r \in Reqs, status \in StatusFilters :
              C2Tool(a, ord, r, status,
                     list_tasks(tasks, next_id, sess[r], ord, a, status))
        /\ \A u \in Users, f \in HttpFilters, sort \in HttpSorts :
              C2Http(a, HttpListReply(tasks, u, a, f, sort, ord))

\* both owners have a task, and a chat turn of u1 has listed exactly one
C2_Witness ==
    \E r \in Reqs :
        /\ req[r].token_user_id = "u1"
        /\ \E a, b \in DOMAIN tasks :
              tasks[a].user_id = "u1" /\ tasks[b].user_id = "u2"
        /\ tool_results[r] # << >>
        /\ tool_results[r][1].call.name = "list_tasks"
        /\ tool_results[r][1].outputs[1].status = "success"
        /\ tool_results[r][1].outputs[1].count = 1

\* the replies and the writes of the HTTP endpoints for a request of owner a
\* are those they would be on a's rows alone, and leave b's rows alone
C3Http(a, b, mine, ord) ==
    /\ \A f \in HttpFilters, sort \in HttpSorts :
          HttpListReply(tasks, a, a, f, sort, ord)
              = HttpListReply(mine, a, a, f, sort, ord)
    /\ \A id \in TaskIds :
          /\ HttpGetReply(tasks, a, a, id) = HttpGetReply(mine, a, a, id)
          /\ HttpWriteStatus(tasks, a, a, id, 200)
                = HttpWriteStatus(mine, a, a, id, 200)
          /\ \A u \in Users :
                /\ OwnedBy(HttpDeleteRows(tasks, u, a, id), b) = OwnedBy(tasks, b)
                /\ OwnedBy(HttpToggleRows(tasks, now, u, a, id), b) = OwnedBy(tasks, b)
                /\ \A data \in { [title |-> MkeDinner], [completed |-> TRUE] } :
                      OwnedBy(HttpUpdateRows(tasks, now, u, a, id, data), b)
                          = OwnedBy(tasks, b)
    /\ \A u \in Users :
          OwnedBy(HttpCreateRows(tasks, next_id, now, u, a, MkeDinner, None), b)
              = OwnedBy(tasks, b)
    /\ \A c \in ConvIds :
          FindConversation(conversations, c, a)
              = FindConversation(ConversationsOf(conversations, a), c, a)

\* what a request of owner a is answered and does is independent of b's data
C3Independent ==
    \A a \in Users, b \in Users, ord \in Orders(DOMAIN tasks) :
        a # b => C3Http(a, b, OwnedBy(tasks, a), ord)

\* a step of a chat turn is a step of its authenticated owner; every step
\* leaves the tasks, conversations and messages of all owners but one alone;
\* a tool call gives the result it gives on the caller's rows alone
C3Step ==
    \/ tasks' = tasks /\ conversations' = conversations /\ messages' = messages
    \/ \E a \in Users :
          /\ \A r \in Reqs : ChatStep(r) => req'[r].token_user_id = a
          /\ \A b \in Users \ {a} :
                /\ OwnedBy(tasks', b) = OwnedBy(tasks, b)
                /\ ConversationsOf(conversations', b)
                      = ConversationsOf(conversations, b)
                /\ MessagesOf(messages', conversations', b)
                      = MessagesOf(messages, conversations, b)

C3ToolResult(r) ==
    ToolStep(r) =>
        \E ord \in Orders(DOMAIN tasks) :
            Last(tool_results'[r]).outputs[1] =
                ResultOn(OwnedBy(tasks, req[r].token_user_id), r, ord,
                         Last(tool_results'[r]).call.parameters)

C4Committed(r, id) ==
    /\ ToolStep(r)
    /\ Last(tool_results'[r]).call.name = "update_task"
    /\ Last(tool_results'[r]).outputs[1].status = "success"
    /\ Last(tool_results'[r]).outputs[1].task.id = StrOfInt(id)
    /\ tasks'[id].title = Last(tool_results'[r]).outputs[1].task.title
    /\ tasks'[id].title =
          IF "title" \in DOMAIN Last(tool_results'[r]).call.parameters
          THEN Strip(Last(tool_results'[r]).call.parameters["title"])
          ELSE tasks[id].title

\* C4: update is atomic.  A step of a chat turn changes the stored title or
\* description of a task only if it is an update_task call that succeeds on
\* that task and stores the title that call was given: a title assigned by an
\* update that then failed is never committed, neither by a later tool call
\* nor by the commit that stores the turn's messages.
C4_FailedUpdateLeavesNoTrace ==
    [][\A r \in Reqs :
          ChatStep(r) =>
              \A id \in DOMAIN tasks \cap DOMAIN tasks' :
                  \/ /\ tasks'[id].title = tasks[id].title
                     /\ tasks'[id].description = tasks[id].description
                  \/ C4Committed(r, id)]_vars

\* the title fragment of a call of complete_task, delete_task or update_task
FragmentOf(call) ==
    IF call.name = "update_task" THEN Get(call.parameters, "old_title")
    ELSE Get(call.parameters, "title")

\* the step is a call of request r to one of the three tools with a title
\* fragment and no id that resolves, made on a session that holds no change
ByFragment(r) ==
    /\ ToolStep(r)
    /\ Head(calls[r]).name \in { "complete_task", "delete_task", "update_task" }
    /\ Truthy(FragmentOf(Head(calls[r])))
    /\ ById(tasks, req[r].user_id, Get(Head(calls[r]).parameters, "task_id")) = 0
    /\ sess[r] = CleanSession

\* the tasks of owner whose title contains the fragment, ignoring case
Containing(owner, fragment) ==
    { id \in DOMAIN tasks :
        tasks[id].user_id = owner /\ Contains(tasks[id].title, fragment) }

\* the step applies the tool to task id and to no other
AppliedTo(name, parameters, id) ==
    /\ Touched \subseteq { id }
    /\ name = "complete_task" => tasks'[id].completed
    /\ name = "delete_task" => id \notin DOMAIN tasks'
    /\ name = "update_task" =>
          tasks'[id].description = Strip(parameters["description"])

C5Resolution(call, result, M) ==
    /\ Cardinality(M) = 1 =>
          /\ result.status = "success"
          /\ \A id \in M : AppliedTo(call.name, call.parameters, id)
    /\ M = {} => result.status = "error" /\ tasks' = tasks
    /\ Cardinality(M) >= 2 =>
          /\ result.status = "multiple_matches"
          /\ { IntOf(result.tasks[i].id) : i \in DOMAIN result.tasks } = M

\* C5: complete, delete and update called with a title fragment and no
\* resolving id act on the owner's tasks whose title contains the fragment
\* ignoring case: exactly one such task, and the tool is applied to it; none,
\* and the result is an error and nothing changes; two or more, and the
\* result is multiple_matches listing exactly those tasks.
C5_FragmentResolvesByContainment ==
    [][\A r \in Reqs :
          ByFragment(r) =>
              C5Resolution(Head(calls[r]), Last(tool_results'[r]).outputs[1],
                           Containing(req[r].user_id, FragmentOf(Head(calls[r]))))]_vars

\* the owner has exactly the tasks "make dinner" and "mke dinner"
DinnerScenario(owner) ==
    /\ DOMAIN OwnedBy(tasks, owner) = DOMAIN tasks
    /\ { tasks[id].title : id \in DOMAIN tasks } = { MakeDinner, MkeDinner }
    /\ Cardinality(DOMAIN tasks) = 2

C6Ambiguous(r, call, result, M) ==
    /\ result.status = "multiple_matches" =>
          /\ tasks' = tasks
          /\ next_id' = next_id
          /\ sess'[r].dirty = << >>
    /\ Cardinality(M) >= 2 =>
          /\ result.status = "multiple_matches"
          /\ Len(result.tasks) >= Cardinality(M)
    /\ DinnerScenario(req[r].user_id) /\ call = CompleteByTitle(Dinner) =>
          /\ result.status = "multiple_matches"
          /\ Len(result.tasks) = 2
          /\ \A id \in DOMAIN tasks' : tasks'[id].completed = tasks[id].completed

\* C6: when the fragment is contained in the titles of two or more tasks of
\* the owner, complete, delete and update return multiple_matches, and a call
\* that returns multiple_matches changes no task; with the owner's tasks
\* "make dinner" and "mke dinner", complete(title="dinner") returns
\* multiple_matches with 2 entries and leaves both tasks as they were.
C6_AmbiguousFragmentMutatesNothing ==
    [][\A r \in Reqs :
          ByFragment(r) =>
              C6Ambiguous(r, Head(calls[r]), Last(tool_results'[r]).outputs[1],
                          Containing(req[r].user_id, FragmentOf(Head(calls[r]))))]_vars

\* the scenario of the claim has run: both tasks are there, incomplete, and
\* complete(title="dinner") has returned multiple_matches with two entries
C6_Witness ==
    \E r \in Reqs :
        /\ DinnerScenario(req[r].user_id)
        /\ \A id \in DOMAIN tasks : ~tasks[id].completed
        /\ Len(tool_results[r]) = 1
        /\ tool_results[r][1].call.name = "complete_task"
        /\ tool_results[r][1].call.parameters["title"] = Dinner
        /\ tool_results[r][1].outputs[1].status = "multiple_matches"
        /\ Len(tool_results[r][1].outputs[1].tasks) = 2

\* the candidates of a multiple_matches result, as a set
CandidateSet(result) == { result.tasks[i] : i \in DOMAIN result.tasks }

\* C7: the candidates of multiple_matches come in a stable order: two calls
\* of one chat turn with the same fragment that found the same candidates
\* list them in the same order.
C7_CandidateOrderIsStable ==
    \A r \in Reqs : \A i, j \in DOMAIN tool_results[r] :
        /\ tool_results[r][i].outputs[1].status = "multiple_matches"
        /\ tool_results[r][j].outputs[1].status = "multiple_matches"
        /\ FragmentOf(tool_results[r][i].call) = FragmentOf(tool_results[r][j].call)
        /\ CandidateSet(tool_results[r][i].outputs[1])
              = CandidateSet(tool_results[r][j].outputs[1])
        => tool_results[r][i].outputs[1].tasks = tool_results[r][j].outputs[1].tasks

\* the step is an add_task call of request r with a title, made on a session
\* that holds no change
AddStep(r) ==
    /\ ToolStep(r)
    /\ Head(calls[r]).name = "add_task"
    /\ "title" \in DOMAIN Head(calls[r]).parameters
    /\ sess[r] = CleanSession

\* title and description as add_task normalizes them
Normalized(text) == IF Truthy(text) THEN Strip(text) ELSE text

ValidTitle(title) == Truthy(title) /\ Len(title) <= MaxTitleLen

ValidDescription(description) ==
    ~Truthy(description) \/ Len(description) <= MaxDescriptionLen

\* the tasks of owner whose title equals title, ignoring case
EqualTitled(owner, title) ==
    { id \in DOMAIN tasks :
        tasks[id].user_id = owner /\ EqualsIgnoreCase(tasks[id].title, title) }

\* the step inserts one incomplete task of owner with that title and
\* description and the result is its record
Inserted(result, owner, title, description) ==
    /\ result.status = "success"
    /\ next_id \in DOMAIN tasks' \ DOMAIN tasks
    /\ Touched = { next_id }
    /\ tasks'[next_id].user_id = owner
    /\ tasks'[next_id].title = title
    /\ tasks'[next_id].description =
          (IF Truthy(description) THEN description ELSE None)
    /\ ~tasks'[next_id].completed
    /\ result.task = TaskDict(next_id, tasks'[next_id])

C8Duplicate(result, E) ==
    E # {} =>
        /\ result.status = "warning"
        /\ IntOf(result.existing_task_id) \in E
        /\ tasks' = tasks
        /\ next_id' = next_id

\* C8: add with a valid title that equals, ignoring case, the title of a task
\* of the same owner returns a warning that carries the id of such a task,
\* inserts no row and changes no row.
C8_DuplicateTitleIsReported ==
    [][\A r \in Reqs :
          /\ AddStep(r)
          /\ ValidTitle(Normalized(Head(calls[r]).parameters["title"]))
          /\ ValidDescription(Normalized(Get(Head(calls[r]).parameters, "description")))
          => C8Duplicate(Last(tool_results'[r]).outputs[1],
                         EqualTitled(req[r].user_id,
                                     Normalized(Head(calls[r]).parameters["title"])))]_vars

C9Lookup(result, owner, title, description, E) ==
    /\ result.status = "warning" <=> E # {}
    /\ E = {} => Inserted(result, owner, title, description)

\* C9: the duplicate lookup of add is equality ignoring case within the
\* owner's tasks: a valid add returns the warning only if a task of the same
\* owner has the normalized title, ignoring case; otherwise, whatever
\* characters the title holds and whatever other owners have, it inserts an
\* incomplete task owned by the caller and returns its record.
C9_DuplicateLookupIsEquality ==
    [][\A r \in Reqs :
          /\ AddStep(r)
          /\ ValidTitle(Normalized(Head(calls[r]).parameters["title"]))
          /\ ValidDescription(Normalized(Get(Head(calls[r]).parameters, "description")))
          => C9Lookup(Last(tool_results'[r]).outputs[1], req[r].user_id,
                      Normalized(Head(calls[r]).parameters["title"]),
                      Normalized(Get(Head(calls[r]).parameters, "description")),
                      EqualTitled(req[r].user_id,
                                  Normalized(Head(calls[r]).parameters["title"])))]_vars

ValidationErrors ==
    { ErrorResult("Title is required"),
      ErrorResult("Title must be 255 characters or less"),
      ErrorResult("Description must be 1000 characters or less") }

C10Validation(result, owner, title, description) ==
    /\ ~ValidTitle(title) \/ ~ValidDescription(description) =>
          /\ result \in ValidationErrors
          /\ tasks' = tasks
          /\ next_id' = next_id
    /\ Len(title) = MaxTitleLen + 1 => result.status = "error"
    /\ /\ Len(title) = MaxTitleLen
       /\ ValidDescription(description)
       /\ EqualTitled(owner, title) = {}
       => Inserted(result, owner, title, description)

\* C10: add returns a validation error and inserts nothing when the title,
\* trimmed, is empty or longer than 255 characters, or the description,
\* trimmed, is longer than 1000 characters; a title of 256 characters fails,
\* and one of exactly 255 characters that no task of the owner has is
\* inserted.
C10_AddValidatesLengths ==
    [][\A r \in Reqs :
          AddStep(r) =>
              C10Validation(Last(tool_results'[r]).outputs[1], req[r].user_id,
                            Normalized(Head(calls[r]).parameters["title"]),
                            Normalized(Get(Head(calls[r]).parameters, "description")))]_vars

\* one chat turn has been refused a title of 256 characters and has then
\* added one of 255, which is stored
C10_Witness ==
    \E r \in Reqs :
        /\ Len(tool_results[r]) = 2
        /\ tool_results[r][1].call.parameters["title"] = Title256
        /\ tool_results[r][1].outputs[1]
              = ErrorResult("Title must be 255 characters or less")
        /\ tool_results[r][2].outputs[1].status = "success"
        /\ \E id \in DOMAIN tasks : tasks[id].title = Title255

\* C11: every stored task has a title of 1 to 255 characters and a
\* description that is null or of at most 1000 characters, after any sequence
\* of add and update calls.
C11_StoredTasksAreValid ==
    \A id \in DOMAIN tasks :
        /\ Len(tasks[id].title) >= 1
        /\ Len(tasks[id].title) <= MaxTitleLen
        /\ tasks[id].description = None
              \/ Len(tasks[id].description) <= MaxDescriptionLen

\* the ways a call names its task
References ==
    { [task_id |-> << "1" >>], [task_id |-> << "2" >>], [old_title |-> Dinner],
      [task_id |-> << "1" >>, old_title |-> Dinner], [task_id |-> << "x" >>] }

\* the tool returned that error and left rows, id sequence and session alone
Rejected(store, nid, s, msg, out) ==
    /\ out.result = ErrorResult(msg)
    /\ ~out.raised
    /\ out.tasks = store
    /\ out.next_id = nid
    /\ out.sess = s

\* C14: update with neither title nor description returns a validation error
\* and changes nothing, whether or not the reference names a task of the
\* owner, and whatever the session holds.
C14_UpdateWithoutFieldsIsRejected ==
    \A a \in Users, r \in Reqs, ord \in Orders(DOMAIN tasks) :
        \A s \in { CleanSession, sess[r] } :
            /\ \A ref \in References :
                  Rejected(tasks, next_id, s,
                           "At least one field (title or description) must be provided",
                           execute_tool(tasks, next_id, s, now, ord, "update_task",
                                        [user_id |-> a] @@ ref))
            /\ Rejected(tasks, next_id, s,
                        "Must provide either task_id or old_title",
                        execute_tool(tasks, next_id, s, now, ord, "update_task",
                                     [user_id |-> a]))

\* a chat turn has called update on task 1, which its user owns, with no field
\* to change, and was refused
C14_Witness ==
    \E r \in Reqs :
        /\ 1 \in DOMAIN tasks
        /\ tasks[1].user_id = req[r].token_user_id
        /\ Len(tool_results[r]) = 1
        /\ tool_results[r][1].call.name = "update_task"
        /\ DOMAIN tool_results[r][1].call.parameters = { "user_id", "task_id" }
        /\ tool_results[r][1].outputs[1] =
              ErrorResult("At least one field (title or description) must be provided")

\* what update by id with these fields leaves of task id and of the others
C15Frame(id, fields, out) ==
    /\ "title" \in DOMAIN fields /\ fields["title"] = << >> =>
          /\ out.result.status = "error"
          /\ out.tasks = tasks
    /\ /\ "description" \in DOMAIN fields /\ fields["description"] = << >>
       /\ "title" \in DOMAIN fields =>
             Truthy(fields["title"]) /\ Len(fields["title"]) <= MaxTitleLen
       => out.result.status = "success"
    /\ out.result.status = "success" =>
          /\ DOMAIN out.tasks = DOMAIN tasks
          /\ \A j \in DOMAIN tasks \ {id} : out.tasks[j] = tasks[j]
          /\ out.tasks[id].title =
                (IF "title" \in DOMAIN fields
                 THEN Strip(fields["title"]) ELSE tasks[id].title)
          /\ out.tasks[id].description =
                (IF "description" \notin DOMAIN fields THEN tasks[id].description
                 ELSE IF fields["description"] = << >> THEN None
                 ELSE Strip(fields["description"]))
          /\ out.tasks[id].completed = tasks[id].completed
          /\ out.tasks[id].user_id = tasks[id].user_id
          /\ out.tasks[id].created_at = tasks[id].created_at
          /\ out.result.task = TaskDict(id, out.tasks[id])

C12Again(id, once, again) ==
    /\ again.result.status = "success"
    /\ again.result.task.completed
    /\ again.tasks[id].completed = once.tasks[id].completed

C12Once(id, ord, parameters, once) ==
    /\ once.result.status = "success"
    /\ once.result.task.completed
    /\ once.tasks[id].completed
    /\ \A j \in DOMAIN tasks \ {id} : once.tasks[j] = tasks[j]
    /\ C12Again(id, once,
                execute_tool(once.tasks, once.next_id, once.sess, now, ord,
                             "complete_task", parameters))

\* C12: complete, called by id on a session that holds no change, succeeds on
\* every task of the caller, completed or not, and leaves it completed; a
\* second complete succeeds as well and leaves the flag as the first left it.
C12_CompleteIsIdempotent ==
    \A id \in DOMAIN tasks, ord \in Orders(DOMAIN tasks) :
        C12Once(id, ord, [user_id |-> tasks[id].user_id, task_id |-> StrOfInt(id)],
                execute_tool(tasks, next_id, CleanSession, now, ord, "complete_task",
                             [user_id |-> tasks[id].user_id,
                              task_id |-> StrOfInt(id)]))

\* one chat turn has completed task 1 twice, both times with success
C12_Witness ==
    \E r \in Reqs :
        /\ Len(tool_results[r]) = 2
        /\ \A i \in 1..2 :
              /\ tool_results[r][i].call.name = "complete_task"
              /\ tool_results[r][i].outputs[1].status = "success"
              /\ tool_results[r][i].outputs[1].task.id = << "1" >>
              /\ tool_results[r][i].outputs[1].task.completed
        /\ 1 \in DOMAIN tasks
        /\ tasks[1].completed

\* the ids the sequence has handed out whose task is no longer stored
Gone(store, nid) == (1..(nid - 1)) \ DOMAIN store

NotFound == "Task not found for this user"

\* no list shows the id, and no call by that id alone finds a task
C13Absent(d, a, ord) ==
    /\ \A status \in StatusFilters :
          \A e \in CandidateSet(execute_tool(tasks, next_id, CleanSession, now, ord,
                                             "list_tasks",
                                             [user_id |-> a, status |-> status]).result) :
              e.id # StrOfInt(d)
    /\ \A name \in { "complete_task", "delete_task" } :
          Rejected(tasks, next_id, CleanSession, NotFound,
                   execute_tool(tasks, next_id, CleanSession, now, ord, name,
                                [user_id |-> a, task_id |-> StrOfInt(d)]))
    /\ Rejected(tasks, next_id, CleanSession, NotFound,
                execute_tool(tasks, next_id, CleanSession, now, ord, "update_task",
                             [user_id |-> a, task_id |-> StrOfInt(d),
                              title |-> MkeDinner]))

C13Deleted ==
    \A d \in Gone(tasks, next_id), a \in Users, ord \in Orders(DOMAIN tasks) :
        C13Absent(d, a, ord)

\* a successful delete_task removes the task it names, and an id once gone
\* stays gone
C13Step ==
    /\ Gone(tasks, next_id) \subseteq Gone(tasks', next_id')
    /\ \A r \in Reqs :
          /\ ToolStep(r)
          /\ Last(tool_results'[r]).call.name = "delete_task"
          /\ Last(tool_results'[r]).outputs[1].status = "success"
          => /\ IntOf(Last(tool_results'[r]).outputs[1].task_id) \in DOMAIN tasks
             /\ IntOf(Last(tool_results'[r]).outputs[1].task_id)
                   \in Gone(tasks', next_id')

\* C13: a successful delete removes the task; the id of a deleted task is
\* never stored again, whatever steps follow; and while it is not stored no
\* list result of any owner shows it and complete, delete and update called
\* with that id alone, on a session that holds no change, return not-found
\* and change nothing.
C13_DeletedIdStaysGone ==
    /\ []C13Deleted
    /\ [][C13Step]_vars

\* one chat turn has deleted task 1 and then failed to complete it, while
\* another task has been created since
C13_Witness ==
    \E r \in Reqs :
        /\ Len(tool_results[r]) = 2
        /\ tool_results[r][1].call.name = "delete_task"
        /\ tool_results[r][1].outputs[1].status = "success"
        /\ tool_results[r][1].outputs[1].task_id = << "1" >>
        /\ tool_results[r][2].call.name = "complete_task"
        /\ Get(tool_results[r][2].call.parameters, "task_id") = << "1" >>
        /\ tool_results[r][2].outputs[1] = ErrorResult(NotFound)
        /\ DOMAIN tasks = { 2 }

\* texts given as task_id, each with the number it denotes, or 0 if none
IdTexts ==
    { << << "1" >>, 1 >>, << << "2" >>, 2 >>, << << "9" >>, 9 >>,
      << << "1", "x" >>, 0 >> }

ByReference == { "complete_task", "delete_task", "update_task" }

\* the parameters of a call of tool name that names its task by fragment
ByFragmentParams(name, a, fragment) ==
    IF name = "update_task"
    THEN [user_id |-> a, old_title |-> fragment, description |-> Dinner]
    ELSE [user_id |-> a, title |-> fragment]

\* the parameters of a call of tool name that names its task by id
ByIdParams(name, a, id) ==
    IF name = "update_task"
    THEN [user_id |-> a, task_id |-> id, description |-> Dinner]
    ELSE [user_id |-> a, task_id |-> id]

\* the call succeeded on task n and touched no other
ActedOn(name, n, out) ==
    /\ out.result.status = "success"
    /\ ~out.raised
    /\ \A j \in DOMAIN tasks \ {n} : j \in DOMAIN out.tasks /\ out.tasks[j] = tasks[j]
    /\ name = "delete_task" =>
          n \notin DOMAIN out.tasks /\ out.result.task_id = StrOfInt(n)
    /\ name # "delete_task" =>
          n \in DOMAIN out.tasks /\ out.result.task.id = StrOfInt(n)
    /\ name = "complete_task" => out.tasks[n].completed
    /\ name = "update_task" => out.tasks[n].description = Dinner

\* id names a task of a: the tool acts on it, with or without a fragment.
\* Otherwise the call is the title search if a fragment is given, and
\* not-found without change if none is.  by_id, both and by_fragment are what
\* the call leaves when given the id, the id and the fragment, the fragment.
C16Lookup(name, a, id, by_id, both, by_fragment) ==
    IF id[2] \in DOMAIN tasks /\ tasks[id[2]].user_id = a
    THEN ActedOn(name, id[2], by_id) /\ both = by_id
    ELSE Rejected(tasks, next_id, CleanSession, NotFound, by_id)
         /\ both = by_fragment

C16Calls(name, a, id, ord, with_id, with_fragment) ==
    C16Lookup(name, a, id,
              execute_tool(tasks, next_id, CleanSession, now, ord, name, with_id),
              execute_tool(tasks, next_id, CleanSession, now, ord, name,
                           with_id @@ with_fragment),
              execute_tool(tasks, next_id, CleanSession, now, ord, name,
                           with_fragment))

\* C16: complete, delete and update look the id up by number and owner.  An
\* id that names a task of the caller selects that task, whatever fragment
\* comes with it.  An id that is no number, or names no task of the caller,
\* finds nothing: with a fragment the call does what the title search alone
\* does, without one it returns not-found and changes nothing.
C16_IdLookupThenTitleSearch ==
    \A name \in ByReference, a \in Users, id \in IdTexts :
        \A ord \in Orders(DOMAIN tasks) :
            C16Calls(name, a, id, ord, ByIdParams(name, a, id[1]),
                     ByFragmentParams(name, a, Dinner))

\* a chat turn has called complete with an id that is no number and the
\* fragment "dinner", and the one task that contains it is completed, while
\* the other owner has a task of the same title
C16_Witness ==
    \E r \in Reqs :
        /\ Len(tool_results[r]) = 1
        /\ tool_results[r][1].call.name = "complete_task"
        /\ Get(tool_results[r][1].call.parameters, "task_id") = << "x" >>
        /\ tool_results[r][1].outputs[1].status = "success"
        /\ Cardinality(DOMAIN tasks) = 2
        /\ \E id \in DOMAIN tasks :
              /\ tasks[id].user_id # req[r].token_user_id
              /\ ~tasks[id].completed

\* C17: complete, delete and update called with neither id nor fragment, or
\* with both empty, return the error that asks for one of them; no statement
\* is executed, so that rows, id sequence and session are as before.
C17_NoReferenceIsRejected ==
    \A a \in Users, r \in Reqs, ord \in Orders(DOMAIN tasks) :
        \A s \in { CleanSession, sess[r] } :
            /\ \A name \in { "complete_task", "delete_task" } :
                  \A ref \in { << >>, [task_id |-> << >>, title |-> << >>],
                              [task_id |-> None] } :
                      Rejected(tasks, next_id, s, "Must provide either task_id or title",
                               execute_tool(tasks, next_id, s, now, ord, name,
                                            [user_id |-> a] @@ ref))
            /\ \A ref \in { [title |-> MkeDinner], [description |-> Dinner],
                            [task_id |-> << >>, old_title |-> << >>,
                             title |-> MkeDinner] } :
                  Rejected(tasks, next_id, s, "Must provide either task_id or old_title",
                           execute_tool(tasks, next_id, s, now, ord, "update_task",
                                        [user_id |-> a] @@ ref))

\* a chat turn of a user who has a task has called complete with no
\* parameter and was refused
C17_Witness ==
    \E r \in Reqs :
        /\ Len(tool_results[r]) = 1
        /\ tool_results[r][1].call.name = "complete_task"
        /\ DOMAIN tool_results[r][1].call.parameters = { "user_id" }
        /\ tool_results[r][1].outputs[1] =
              ErrorResult("Must provide either task_id or title")
        /\ \E id \in DOMAIN tasks : tasks[id].user_id = req[r].token_user_id

\* the tasks of a that the status filter of list_tasks selects
Matching(a, status) ==
    { id \in DOMAIN tasks :
        /\ tasks[id].user_id = a
        /\ status = "completed" => tasks[id].completed
        /\ status = "incomplete" => ~tasks[id].completed }

C18Listed(a, status, out) ==
    /\ ~out.raised
    /\ out.result.status = "success"
    /\ out.result.count = Len(out.result.tasks)
    /\ Len(out.result.tasks) = Cardinality(Matching(a, status))
    /\ \A id \in Matching(a, status) :
          \E i \in DOMAIN out.result.tasks :
              out.result.tasks[i] = TaskDict(id, tasks[id])
    /\ \A i, j \in DOMAIN out.result.tasks :
          i < j => out.result.tasks[i].created_at >= out.result.tasks[j].created_at
    /\ out.tasks = tasks
    /\ out.next_id = next_id
    /\ out.sess = CleanSession

\* C18: list, called on a session that holds no change, returns success with
\* exactly the caller's tasks that the filter selects (completed, incomplete,
\* all, and all when no filter is given), each once, in descending order of
\* created_at, the empty list if there is none, and changes nothing.
C18_ListReturnsMatchingNewestFirst ==
    \A a \in Users, ord \in Orders(DOMAIN tasks) :
        /\ \A status \in StatusFilters :
              C18Listed(a, status,
                        execute_tool(tasks, next_id, CleanSession, now, ord,
                                     "list_tasks", [user_id |-> a, status |-> status]))
        /\ C18Listed(a, "all",
                     execute_tool(tasks, next_id, CleanSession, now, ord,
                                  "list_tasks", [user_id |-> a]))

\* a chat turn has listed two tasks of its user, the newer one first
C18_Witness ==
    \E r \in Reqs :
        /\ Len(tool_results[r]) = 1
        /\ tool_results[r][1].call.name = "list_tasks"
        /\ tool_results[r][1].outputs[1].count = 2
        /\ tool_results[r][1].outputs[1].tasks[1].created_at = 1
        /\ tool_results[r][1].outputs[1].tasks[2].created_at = 0
        /\ tool_results[r][1].outputs[1].tasks[1].id = << "2" >>

\* the ids of the tasks user_id owns
IdsOf(store, user_id) == DOMAIN OwnedBy(store, user_id)

\* the result of the i-th call of the turn
Prev(r, i) == tool_results[r][i].outputs[1]

\* the turn of request r has made the first k calls of the scenario, and its
\* add returned the task of id x
C19Ran(r, k, x) ==
    /\ Len(tool_results[r]) = k
    /\ \A i \in 1..k :
          /\ tool_results[r][i].call.name = Scenario(StrOfInt(x))[i].name
          /\ Prev(r, i).status = "success"
    /\ k >= 1 => Prev(r, 1).task.id = StrOfInt(x)
    /\ Head(calls[r]) = Scenario(StrOfInt(x))[k + 1]

C19Add(r, me, result) ==
    /\ Len(tool_results[r]) = 0
    /\ Head(calls[r]) = AddTitle(BuyMilk)
    /\ IdsOf(tasks, me) = {}
    => /\ result.status = "success"
       /\ result.task.title = BuyMilk
       /\ ~result.task.completed
       /\ IdsOf(tasks', me) = { IntOf(result.task.id) }
       /\ ~tasks'[IntOf(result.task.id)].completed

C19List(r, me, x, result) ==
    C19Ran(r, 1, x) /\ IdsOf(tasks, me) = {x}
    => /\ result.status = "success"
       /\ result.count = 1
       /\ Len(result.tasks) = 1
       /\ result.tasks[1].id = StrOfInt(x)
       /\ tasks' = tasks

C19Complete(r, me, x, result) ==
    C19Ran(r, 2, x) /\ IdsOf(tasks, me) = {x}
    => /\ result.status = "success"
       /\ result.task.id = StrOfInt(x)
       /\ result.task.completed
       /\ IdsOf(tasks', me) = {x}
       /\ tasks'[x].completed

C19Delete(r, me, x, result) ==
    C19Ran(r, 3, x) /\ IdsOf(tasks, me) = {x}
    => /\ result.status = "success"
       /\ result.task_id = StrOfInt(x)
       /\ IdsOf(tasks', me) = {}

C19ListAgain(r, me, x, result) ==
    C19Ran(r, 4, x) /\ IdsOf(tasks, me) = {}
    => /\ result.status = "success"
       /\ result.tasks = << >>
       /\ result.count = 0
       /\ tasks' = tasks

\* C19: the scenario, step by step.  For an owner with no task, add("buy
\* milk") succeeds with completed=false and the owner has that one task; list
\* then returns exactly that task; complete(title="milk") then resolves to it
\* and returns it completed; delete by its id then succeeds and the owner has
\* no task; list then returns the empty array.
C19_AddListCompleteDeleteList ==
    [][\A r \in Reqs :
          ToolStep(r) /\ sess[r] = CleanSession =>
              /\ C19Add(r, req[r].user_id, Last(tool_results'[r]).outputs[1])
              /\ \A x \in TaskIds :
                    /\ C19List(r, req[r].user_id, x, Last(tool_results'[r]).outputs[1])
                    /\ C19Complete(r, req[r].user_id, x, Last(tool_results'[r]).outputs[1])
                    /\ C19Delete(r, req[r].user_id, x, Last(tool_results'[r]).outputs[1])
                    /\ C19ListAgain(r, req[r].user_id, x, Last(tool_results'[r]).outputs[1])]_vars

\* the five calls have run in one turn of u1, each with the result of the
\* scenario, while u2 has a task
C19_Witness ==
    \E r \in Reqs, x \in TaskIds :
        /\ Len(tool_results[r]) = 5
        /\ \A i \in 1..5 :
              /\ tool_results[r][i].call.name = Scenario(StrOfInt(x))[i].name
              /\ Prev(r, i).status = "success"
        /\ Prev(r, 1).task.id = StrOfInt(x)
        /\ ~Prev(r, 1).task.completed
        /\ Prev(r, 2).count = 1
        /\ Prev(r, 3).task.id = StrOfInt(x)
        /\ Prev(r, 3).task.completed
        /\ Prev(r, 4).task_id = StrOfInt(x)
        /\ Prev(r, 5).tasks = << >>
        /\ IdsOf(tasks, "u2") # {}
        /\ IdsOf(tasks, "u1") = {}

Statuses == { "success", "error", "warning", "multiple_matches" }

\* tool names and parameter maps handed to the dispatcher: the five tools,
\* names it does not know, and maps that lack user_id or title
Dispatched ==
    { AddCall, ListCall, CompleteCall, DeleteCall, UpdateCall, UpdateTooLong,
      BogusCall, SurrogateCall, AddNoTitle, Call("", << >>),
      Call("ADD_TASK", AddCall.parameters),
      Call("list_tasks", << >>),
      Call("complete_task", [user_id |-> "u1", title |-> Dinner]) }

C20Enveloped(s, call, out) ==
    /\ ~out.raised
    /\ out.result.status \in Statuses
    /\ call.name \notin ToolNames =>
          /\ out.result.status = "error"
          /\ out.tasks = tasks
          /\ out.next_id = next_id
          /\ out.sess = s

\* every result a chat turn has collected carries one of the four statuses
C20Collected ==
    \A r \in Reqs : \A i \in DOMAIN tool_results[r] :
        /\ Prev(r, i).status \in Statuses
        /\ tool_results[r][i].call.name \notin ToolNames => Prev(r, i).status = "error"

\* C20: execute_tool ends by returning, never by raising, for every tool name
\* and parameter map and whatever the session holds, a failing statement
\* included; the result's status is success, error, warning or
\* multiple_matches; a name that is none of the five tools gives status error
\* and no tool runs: rows, id sequence and session are as before.
C20_DispatcherAlwaysReturnsAResult ==
    /\ C20Collected
    /\ \A r \in Reqs, ord \in Orders(DOMAIN tasks), call \in Dispatched :
          \A s \in { CleanSession, sess[r] } :
              C20Enveloped(s, call,
                           execute_tool(tasks, next_id, s, now, ord, call.name,
                                        call.parameters))

-----------------------------------------------------------------------------
(* The chat turn as a whole                                                *)

\* the step ends request r with an HTTP error before it reached PERSIST
FailsBeforePersist(r) ==
    /\ pc[r] \in { "idle", "done", "model1", "tools", "model2" }
    /\ pc'[r] = "done"
    /\ response'[r].status \in { 403, 404, 500 }

\* the step stores messages
StoresMessages == messages' # messages

\* C21: a chat turn that fails before PERSIST (at the identity check, the
\* conversation lookup, the first or second model call or the dispatch of a
\* tool) stores neither its user message nor an assistant message: the step
\* that fails leaves table messages as it is, and messages are stored only by
\* the PERSIST step of a turn that answers with status 200.
C21_FailedTurnStoresNoMessage ==
    [][/\ \A r \in Reqs : FailsBeforePersist(r) => ~StoresMessages
       /\ StoresMessages =>
             \E r \in Reqs : pc[r] = "persist" /\ response'[r].status = 200]_vars

\* a turn in a new conversation failed after its first tool call was
\* committed, and the conversation holds no message
C21_Witness ==
    \E r \in Reqs :
        /\ pc[r] = "done"
        /\ response[r].status = 500
        /\ req[r].conversation = MaxChatConvs
        /\ tasks # << >>
        /\ Rows(messages, req[r].conversation) = { }


\* the ids of the rows that the tool call of result added to table tasks
AddedBy(result) ==
    IF /\ result.call.name = "add_task"
       /\ result.outputs[1].status = "success"
    THEN { IntOf(result.outputs[1].task.id) }
    ELSE { }

\* the step ends request r with status 500 at a model call from position at
ModelCallFails(r, at) ==
    /\ pc[r] \in at
    /\ pc'[r] = "done"
    /\ response'[r].status = 500

\* C22: a chat turn whose model call times out or fails, the second call
\* after the tools were dispatched included, fails as a whole: the task store
\* after the failed turn is the task store before it, so none of the rows
\* that the tool calls of the turn added is in table tasks after the step
\* that fails (the chat specification has no other writer of tasks).
C22_FailedModelCallLeavesTasks ==
    [][\A r \in Reqs :
          ModelCallFails(r, { "model1", "model2" })
          => \A i \in DOMAIN tool_results[r] :
                AddedBy(tool_results[r][i]) \cap DOMAIN tasks' = { }]_vars


\* C23: a failure of the turn persists no partial state: when a turn that
\* named no conversation_id has failed, at a model call, at a tool or at
\* persistence, the Conversation row that the turn created is not in table
\* conversations.
C23_FailedTurnLeavesNoConversation ==
    \A r \in Reqs :
        /\ pc[r] = "done"
        /\ response[r].status = 500
        /\ req[r].conversation_id = 0
        => req[r].conversation \notin DOMAIN conversations


\* the messages of role role among the rows rows of table messages
OfRole(rows, role) == { i \in rows : messages[i].role = role }

\* every conversation holds as many user messages as assistant messages
C24Balanced ==
    \A c \in DOMAIN conversations \cup { messages[i].conversation_id : i \in DOMAIN messages } :
        Cardinality(OfRole(Rows(messages, c), "user"))
            = Cardinality(OfRole(Rows(messages, c), "assistant"))

\* the step stores the two messages of the turn of request r and stamps its
\* conversation
C24Persisted(r) ==
    /\ pc[r] = "persist"
    /\ response'[r].status = 200
    /\ Len(messages') = Len(messages) + 2
    /\ SubSeq(messages', 1, Len(messages)) = messages
    /\ messages'[Len(messages) + 1].role = "user"
    /\ messages'[Len(messages) + 1].content = req[r].message
    /\ messages'[Len(messages) + 1].conversation_id = req[r].conversation
    /\ messages'[Len(messages) + 2].role = "assistant"
    /\ messages'[Len(messages) + 2].conversation_id = req[r].conversation
    /\ conversations'[req[r].conversation].updated_at = now

\* the step leaves the messages and the updated_at of every conversation
C24Nothing ==
    /\ messages' = messages
    /\ \A c \in DOMAIN conversations :
          conversations'[c].updated_at = conversations[c].updated_at

\* C24: PERSIST is one unit: the user message, the assistant message and the
\* bump of the conversation's updated_at become visible together or not at
\* all, and in every committed state each conversation holds as many user
\* messages as assistant messages.
C24_PersistIsOneUnit ==
    /\ []C24Balanced
    /\ [][C24Nothing \/ \E r \in Reqs : C24Persisted(r)]_vars

\* a turn stored its two messages in a conversation that earlier turns had
\* written, and stamped the conversation with the later clock
C24_Witness ==
    \E r \in Reqs :
        /\ response[r].status = 200
        /\ Cardinality(NewMessages) = 2
        /\ Cardinality(Rows(messages, req[r].conversation)) > 2
        /\ conversations[req[r].conversation].updated_at = MaxClock


\* the last limit entries of sequence s
LastOf(s, limit) ==
    IF Len(s) <= limit THEN s ELSE SubSeq(s, Len(s) - limit + 1, Len(s))

\* the most recent limit messages of conversation c in ascending created_at
\* order, rows of one created_at in either order
MostRecent(c, ties, limit) ==
    LastOf(Ascending(messages, Rows(messages, c), ties,
                     Cardinality(Rows(messages, c))),
           limit)

\* the history that the first invocation of co.chat got is that of the
\* most recent limit messages
C25Given(r, limit) ==
    \E ties \in BOOLEAN :
        cohere[r].chats[1].chat_history
            = format_messages_for_cohere(MostRecent(req[r].conversation, ties, limit))

\* C25: the history given to the model in a turn is the conversation's most
\* recent messages, at most 50, in ascending created_at order: the 50 newest
\* of a conversation with more than 50 stored messages, all of one with at
\* most 50.  (Table messages does not change between the load of the history
\* and the end of the turn.)
C25_HistoryIsMostRecent ==
    \A r \in Reqs :
        cohere[r].chats # << >> => C25Given(r, HistoryLimit)


\* the step is the begin of a turn of request r
BeginStep(r) ==
    /\ pc[r] \in { "idle", "done" }
    /\ << req'[r], pc'[r], response'[r] >> # << req[r], pc[r], response[r] >>

\* the request names a conversation_id under which the store store holds no
\* conversation of the requesting user
NamesNoConversation(request, store) ==
    /\ request.token_user_id = request.user_id
    /\ request.conversation_id # 0
    /\ ~ /\ request.conversation_id \in DOMAIN store
         /\ store[request.conversation_id].user_id = request.user_id

\* C26: a chat turn that names a conversation_id which does not exist or
\* which another user owns fails with conversation-not-found (status 404)
\* before any model call or tool dispatch, and writes nothing.
C26_UnknownConversationIsNotFound ==
    [][\A r \in Reqs :
          BeginStep(r) /\ NamesNoConversation(req'[r], conversations)
          => /\ response'[r].status = 404
             /\ pc'[r] = "done"
             /\ cohere'[r] = NoExchange
             /\ UNCHANGED << tasks, next_id, conversations, messages >>]_vars


\* the positions a turn may move between: LOADING_CONTEXT is the begin of
\* the turn, model1 and model2 wait for the answers of the two model calls,
\* done is RESPONSE
TurnOrder ==
    { << "idle", "model1" >>, << "idle", "done" >>, << "done", "model1" >>,
      << "done", "done" >>, << "model1", "tools" >>, << "model1", "persist" >>,
      << "model1", "done" >>, << "tools", "tools" >>, << "tools", "model2" >>,
      << "tools", "done" >>, << "model2", "persist" >>, << "model2", "done" >>,
      << "persist", "done" >> }

\* the number of model invocations that a turn whose first answer held the
\* tool calls tool_calls has made when it persists
Invocations(tool_calls) == IF tool_calls = << >> THEN 1 ELSE 2

\* what the turn of request r has exchanged with the model at its position
C27Position(r) ==
    /\ pc[r] \in { "idle", "done", "model1" } => cohere[r].chats = << >>
    /\ pc[r] = "tools"
       => /\ Len(cohere[r].chats) = 1
          /\ cohere[r].tool_calls # << >>
          /\ calls[r] # << >>
    /\ pc[r] = "model2"
       => /\ Len(cohere[r].chats) = 1
          /\ tool_results[r] # << >>
          /\ calls[r] = << >>
    /\ pc[r] = "persist"
       => /\ Len(cohere[r].chats) = Invocations(cohere[r].tool_calls)
          /\ Len(tool_results[r]) = Len(cohere[r].tool_calls)
          /\ calls[r] = << >>

\* the step, which is one of request r, keeps the order of the turn
C27Step(r) ==
    /\ pc'[r] # pc[r] => << pc[r], pc'[r] >> \in TurnOrder
    /\ Len(cohere'[r].chats) > Len(cohere[r].chats)
       => pc[r] \in { "model1", "model2" }
    /\ ToolStep(r) \/ tasks' # tasks
       => /\ pc[r] = "tools"
          /\ Len(cohere[r].chats) = 1
          /\ Len(cohere'[r].chats) = 1
    /\ StoresMessages
       => /\ pc[r] = "persist"
          /\ Len(cohere[r].chats) = Invocations(cohere[r].tool_calls)

\* C27: every chat turn follows LOADING_CONTEXT, MODEL_CALL_1, optionally
\* (TOOLS, MODEL_CALL_2), PERSIST, RESPONSE in that order: the model is
\* invoked exactly once when it requests no tool and exactly twice when it
\* requests one or more, tools are dispatched only between the two
\* invocations, the tool calls of the second answer are never executed, and
\* PERSIST happens only after the final reply exists.
C27_TurnFollowsItsOrder ==
    /\ [](\A r \in Reqs : C27Position(r))
    /\ [][\A r \in Reqs : ChatStep(r) => C27Step(r)]_vars

\* a turn is about to persist after two tool calls and two model invocations
C27_Witness ==
    \E r \in Reqs :
        /\ pc[r] = "persist"
        /\ Len(cohere[r].chats) = 2
        /\ Len(tool_results[r]) = 2


\* the parameters of a call apart from user_id
Given(parameters) ==
    [k \in DOMAIN parameters \ { "user_id" } |-> parameters[k]]

\* the ids of the tasks that the list_tasks call of result returned
ListedBy(result) ==
    IF /\ result.call.name = "list_tasks"
       /\ result.outputs[1].status = "success"
    THEN { IntOf(result.outputs[1].tasks[k].id) : k \in DOMAIN result.outputs[1].tasks }
    ELSE { }

\* the turn of request r has dispatched the first calls the model emitted, in
\* their order, and holds the others; a list_tasks call of the turn returned
\* what the add_task calls before it stored, and not what a later one stored
C28Collected(r) ==
    /\ Len(tool_results[r]) + Len(calls[r]) = Len(cohere[r].tool_calls)
    /\ \A i \in DOMAIN tool_results[r] :
          /\ tool_results[r][i].call.name = cohere[r].tool_calls[i].name
          /\ Given(tool_results[r][i].call.parameters)
                = Given(cohere[r].tool_calls[i].parameters)
    /\ \A i \in DOMAIN calls[r] :
          calls[r][i] = cohere[r].tool_calls[Len(tool_results[r]) + i]
    /\ \A i, j \in DOMAIN tool_results[r] :
          /\ tool_results[r][j].call.name = "list_tasks"
          /\ tool_results[r][j].outputs[1].status = "success"
          => IF i < j
             THEN AddedBy(tool_results[r][i]) \subseteq ListedBy(tool_results[r][j])
             ELSE AddedBy(tool_results[r][i]) \cap ListedBy(tool_results[r][j]) = { }

\* the second invocation of the model got the collected pairs
C28Passed(r) ==
    Len(cohere[r].chats) = 2
    => /\ cohere[r].chats[2].tool_results = tool_results[r]
       /\ Len(tool_results[r]) = Len(cohere[r].tool_calls)

\* a step that collects a result dispatches the one call at the head of the
\* calls not yet dispatched, on the committed store
C28Dispatched(r) ==
    ToolStep(r)
    => /\ calls'[r] = Tail(calls[r])
       /\ SubSeq(tool_results'[r], 1, Len(tool_results[r])) = tool_results[r]
       /\ Last(tool_results'[r]).call.name = Head(calls[r]).name
       /\ \E ord \in Orders(DOMAIN tasks) :
             /\ Last(tool_results'[r]).outputs[1]
                   = ResultOn(tasks, r, ord, Last(tool_results'[r]).call.parameters)
             /\ tasks' = execute_tool(tasks, next_id, sess[r], now, ord,
                                      Head(calls[r]).name,
                                      Last(tool_results'[r]).call.parameters).tasks

\* the response of a turn that answers 200 lists the emitted calls in their
\* order, each with the status of its result
C28Returned(r) ==
    pc[r] = "persist" /\ response'[r].status = 200
    => /\ Len(response'[r].tool_calls) = Len(cohere[r].tool_calls)
       /\ \A i \in DOMAIN response'[r].tool_calls :
             /\ response'[r].tool_calls[i].name = cohere[r].tool_calls[i].name
             /\ response'[r].tool_calls[i].status
                   = cohere[r].chats[2].tool_results[i].outputs[1].status

\* C28: within one turn the tool calls are dispatched one at a time in the
\* order the model emitted them, each call sees the committed effects of the
\* calls before it, and the collected call/result pairs passed to the second
\* model call and returned in the response have the same length and order as
\* the emitted calls.
C28_ToolCallsRunInEmittedOrder ==
    /\ [](\A r \in Reqs : C28Collected(r) /\ C28Passed(r))
    /\ [][\A r \in Reqs : C28Dispatched(r) /\ C28Returned(r)]_vars

\* a turn answered with the results of an add_task and of a list_tasks that
\* returned the task added
C28_Witness ==
    \E r \in Reqs :
        /\ response[r].status = 200
        /\ Len(response[r].tool_calls) = 2
        /\ response[r].tool_calls[1].name = "add_task"
        /\ response[r].tool_calls[1].status = "success"
        /\ response[r].tool_calls[2].name = "list_tasks"
        /\ response[r].tool_calls[2].status = "success"
        /\ Len(Last(messages).tool_calls) = 2


-----------------------------------------------------------------------------
(* Access by identity                                                      *)

\* the task endpoints refuse the path user id user_id under the identity
\* current_user on the store store, and would write nothing
C29Refused(store, nid, clock, user_id, current_user, task_id, ord) ==
    /\ \A f \in HttpFilters, s \in HttpSorts :
          HttpListReply(store, user_id, current_user, f, s, ord) = Reply(403, << >>)
    /\ HttpGetReply(store, user_id, current_user, task_id) = Reply(403, << >>)
    /\ \A ok \in { 200, 204 } :
          HttpWriteStatus(store, user_id, current_user, task_id, ok) = 403
    /\ HttpCreateRows(store, nid, clock, user_id, current_user, MakeDinner, None)
          = store
    /\ HttpUpdateRows(store, clock, user_id, current_user, task_id,
                      [title |-> MakeDinner]) = store
    /\ HttpDeleteRows(store, user_id, current_user, task_id) = store
    /\ HttpToggleRows(store, clock, user_id, current_user, task_id) = store

\* the endpoints that address one task do not find the task task_id for
\* current_user, and would write nothing
C29NotFound(store, clock, current_user, task_id) ==
    /\ HttpGetReply(store, current_user, current_user, task_id) = Reply(404, << >>)
    /\ \A ok \in { 200, 204 } :
          HttpWriteStatus(store, current_user, current_user, task_id, ok) = 404
    /\ HttpUpdateRows(store, clock, current_user, current_user, task_id,
                      [title |-> MakeDinner]) = store
    /\ HttpDeleteRows(store, current_user, current_user, task_id) = store
    /\ HttpToggleRows(store, clock, current_user, current_user, task_id) = store

\* in the present state every task endpoint refuses a foreign path user id
\* and does not find a foreign task
C29Http ==
    /\ \A user_id, current_user \in Users :
          user_id # current_user
          => \A task_id \in TaskIds : \E ord \in Orders(DOMAIN tasks) :
                C29Refused(tasks, next_id, now, user_id, current_user, task_id, ord)
    /\ \A current_user \in Users, task_id \in DOMAIN tasks :
          tasks[task_id].user_id # current_user
          => C29NotFound(tasks, now, current_user, task_id)

\* a chat turn begun under a foreign identity is refused and writes nothing
C29Chat(r) ==
    BeginStep(r) /\ req'[r].token_user_id # req'[r].user_id
    => /\ response'[r].status = 403
       /\ pc'[r] = "done"
       /\ cohere'[r] = NoExchange
       /\ UNCHANGED << tasks, next_id, conversations, messages >>

\* C29: every HTTP task endpoint (list, create, get, update, delete,
\* toggle-complete) and the chat endpoint, called with a path user id that
\* differs from the authenticated identity, returns Forbidden (403) and reads
\* or writes nothing; called with a matching identity and the id of a task
\* that another user owns, get, update, delete and toggle-complete return
\* not-found (404) and change nothing.
C29_ForeignIdentityIsRefused ==
    /\ []C29Http
    /\ [][\A r \in Reqs : C29Chat(r)]_vars

\* tasks of both users are stored and a chat request under a foreign
\* identity was refused
C29_Witness ==
    /\ \E a, b \in DOMAIN tasks : tasks[a].user_id = "u1" /\ tasks[b].user_id = "u2"
    /\ \E r \in Reqs :
          /\ req[r].token_user_id # req[r].user_id
          /\ response[r].status = 403


\* C30: messages are append-only: no operation changes or removes a stored
\* message, and each message keeps its role, content, tool_calls and
\* conversation_id for ever; a step only ever adds rows after the stored ones.
C30_MessagesAreAppendOnly ==
    [][/\ Len(messages') >= Len(messages)
       /\ \A i \in DOMAIN messages :
             /\ messages'[i].id = messages[i].id
             /\ messages'[i].role = messages[i].role
             /\ messages'[i].content = messages[i].content
             /\ messages'[i].tool_calls = messages[i].tool_calls
             /\ messages'[i].conversation_id = messages[i].conversation_id]_vars

\* a turn with tool calls stored its messages after those of more than 26
\* earlier turns, which are all still stored
C30_Witness ==
    /\ Len(messages) > HistoryLimit + 2
    /\ Cardinality(NewMessages) = 2
    /\ Last(messages).tool_calls # << >>
    /\ \A i \in 1..(Len(messages) - 2) : messages[i].content = ToString(i)


-----------------------------------------------------------------------------
(* Requests that run together                                              *)

\* a transcript of USER and CHATBOT entries in turn, the first one USER
Alternates(chat_history) ==
    \A i \in DOMAIN chat_history :
        chat_history[i].role = IF i % 2 = 1 THEN "USER" ELSE "CHATBOT"

\* C31: the transcript that a turn would pass to the model alternates USER,
\* CHATBOT and starts with USER, for every conversation that chat turns
\* stored, two turns that ran together on it included, and in every order in
\* which the history query may return its rows.
C31_TranscriptAlternates ==
    \A c \in DOMAIN conversations, ties \in BOOLEAN :
        Alternates(format_messages_for_cohere(History(messages, c, ties)))


\* C32: no two tasks that add_task created for one owner have titles that
\* are equal ignoring case, also when two add calls of the owner run
\* together.  Every task of this specification was created by add_task.
C32_AddsInsertOneTaskPerTitle ==
    \A a, b \in DOMAIN tasks :
        /\ a # b
        /\ tasks[a].user_id = tasks[b].user_id
        => Lower(tasks[a].title) # Lower(tasks[b].title)


\* the toggle request p commits to a row that is still stored
C33Commits(p) ==
    /\ toggles[p] # NoToggle
    /\ toggles'[p] = NoToggle
    /\ toggles[p].task_id \in DOMAIN tasks

\* C33: two toggle requests on one task, with no other request writing it,
\* leave completed as it was before them, also when they run together.  As
\* the first commit always negates the stored value, that is: every commit
\* of a toggle request negates the value stored when it commits.
C33_ToggleTwiceRestores ==
    [][\A p \in Patches :
          C33Commits(p) =>
              tasks'[toggles[p].task_id].completed
                  = ~tasks[toggles[p].task_id].completed]_vars


-----------------------------------------------------------------------------
(* What a call writes, and to whom it answers                              *)

\* the id that a success result of complete, delete or update reports
Reported(name, result) ==
    IntOf(IF name = "delete_task" THEN result.task_id ELSE result.task.id)

\* the rows before and after differ in row id at most, which was the
\* caller's, and a complete left all of it but completed and updated_at
C34Frame(name, a, id, before, after) ==
    /\ id \in DOMAIN before
    /\ before[id].user_id = a
    /\ DOMAIN after \subseteq DOMAIN before
    /\ \A o \in DOMAIN before \ {id} : o \in DOMAIN after /\ after[o] = before[o]
    /\ name = "delete_task" <=> id \notin DOMAIN after
    /\ name = "complete_task" =>
          after[id] = [before[id] EXCEPT !.completed = after[id].completed,
                                         !.updated_at = after[id].updated_at]

\* request r got a success result from complete, delete or update
C34Succeeds(r) ==
    /\ ToolStep(r)
    /\ Last(tool_results'[r]).call.name \in ByReference
    /\ Last(tool_results'[r]).outputs[1].status = "success"

\* C34: a successful complete, delete or update of a chat turn changes one
\* stored task row, the caller's row whose id the result reports, and leaves
\* every other row as it was; complete changes nothing of its row but
\* completed and updated_at.
C34_WritesOneRow ==
    [][\A r \in Reqs :
          C34Succeeds(r) =>
              C34Frame(Last(tool_results'[r]).call.name, req[r].user_id,
                       Reported(Last(tool_results'[r]).call.name,
                                Last(tool_results'[r]).outputs[1]),
                       tasks, tasks')]_vars


\* the fragments given beside an id: those of the title search and one that
\* no title contains
C35Fragments == Fragments \cup { Milk }

\* by_id is what the call leaves when given the id alone, both when given
\* the id and a fragment: the tool acted on task id, and the fragment made
\* no difference to the result or to the rows
C35Ignored(name, id, by_id, both) ==
    /\ ActedOn(name, id, by_id)
    /\ both = by_id

\* both is what the call leaves when given an id of no task and a fragment,
\* by_fragment when given the fragment alone
C35Searched(both, by_fragment) == both = by_fragment

C35Calls(name, a, id, ord, with_id, with_none, with_fragment) ==
    /\ C35Ignored(name, id,
                  execute_tool(tasks, next_id, CleanSession, now, ord, name,
                               with_id),
                  execute_tool(tasks, next_id, CleanSession, now, ord, name,
                               with_id @@ with_fragment))
    /\ C35Searched(execute_tool(tasks, next_id, CleanSession, now, ord, name,
                                with_none @@ with_fragment),
                   execute_tool(tasks, next_id, CleanSession, now, ord, name,
                                with_fragment))

\* C35: when the id names a task of the caller, complete, delete and update
\* act on that task and give the result they give for the id alone, whatever
\* fragment comes with it: one that the task's title does not contain, one
\* that other tasks contain, one that no task contains.  The title search
\* runs when the id names no task.
C35_IdComesBeforeFragment ==
    \A name \in ByReference, id \in DOMAIN tasks, f \in C35Fragments :
        \A ord \in Orders(DOMAIN tasks) :
            C35Calls(name, tasks[id].user_id, id, ord,
                     ByIdParams(name, tasks[id].user_id, StrOfInt(id)),
                     ByIdParams(name, tasks[id].user_id, << "9" >>),
                     ByFragmentParams(name, tasks[id].user_id, f))

\* a chat turn has completed task 1 "make dinner" by its id although the
\* call gave the fragment "MKE", which only the caller's task 2 contains
C35_Witness ==
    \E r \in Reqs :
        /\ Len(tool_results[r]) = 1
        /\ tool_results[r][1].call.name = "complete_task"
        /\ Get(tool_results[r][1].call.parameters, "task_id") = << "1" >>
        /\ Get(tool_results[r][1].call.parameters, "title") = Mke
        /\ tool_results[r][1].outputs[1].status = "success"
        /\ tool_results[r][1].outputs[1].task.id = << "1" >>
        /\ DOMAIN tasks = { 1, 2 }
        /\ tasks[1].user_id = req[r].user_id
        /\ tasks[2].user_id = req[r].user_id
        /\ tasks[1].title = MakeDinner /\ tasks[1].completed
        /\ tasks[2].title = MkeDinner /\ ~tasks[2].completed


\* the rows of store but row id
Without(store, id) == [i \in DOMAIN store \ {id} |-> store[i]]

\* foreign is what a call leaves that names by id a task of another owner,
\* absent what the same call leaves when no task has that id, unknown what
\* it leaves for the id 9 of no task: the same not-found result, and no row
\* is written
C36Tool(id, foreign, absent, unknown) ==
    /\ Rejected(tasks, next_id, CleanSession, NotFound, foreign)
    /\ Rejected(Without(tasks, id), next_id, CleanSession, NotFound, absent)
    /\ foreign.result = absent.result
    /\ foreign.result = unknown.result
    /\ unknown.tasks = tasks

C36Calls(name, id, ord, parameters, parameters9) ==
    C36Tool(id,
            execute_tool(tasks, next_id, CleanSession, now, ord, name, parameters),
            execute_tool(Without(tasks, id), next_id, CleanSession, now, ord,
                         name, parameters),
            execute_tool(tasks, next_id, CleanSession, now, ord, name,
                         parameters9))

\* the HTTP endpoints that address one task answer a with 404 for the id of
\* another owner's task as they do when no task has that id, and write no
\* row
C36Http(a, id) ==
    /\ HttpGetReply(tasks, a, a, id) = HttpGetReply(Without(tasks, id), a, a, id)
    /\ HttpGetReply(tasks, a, a, id).status = 404
    /\ \A ok \in { 200, 204 } :
          /\ HttpWriteStatus(tasks, a, a, id, ok) = 404
          /\ HttpWriteStatus(Without(tasks, id), a, a, id, ok) = 404
    /\ HttpUpdateRows(tasks, now, a, a, id, [title |-> MkeDinner]) = tasks
    /\ HttpDeleteRows(tasks, a, a, id) = tasks
    /\ HttpToggleRows(tasks, now, a, a, id) = tasks

\* C36: a caller cannot tell a task of another owner from no task.  For
\* complete, delete and update called with an id alone, and for the HTTP get,
\* update, delete and toggle, the answer for the id of another owner's task
\* is the answer for an id of no task, and no row is written.
C36_ForeignTaskIsAsNoTask ==
    \A id \in DOMAIN tasks : \A a \in Users \ { tasks[id].user_id } :
        /\ C36Http(a, id)
        /\ \A name \in ByReference, ord \in Orders(DOMAIN tasks) :
              C36Calls(name, id, ord, ByIdParams(name, a, StrOfInt(id)),
                       ByIdParams(name, a, << "9" >>))

\* a chat turn of u1 has called complete with the id of a task of the other
\* owner and got the not-found result, and the task is not completed
C36_Witness ==
    \E r \in Reqs :
        /\ tool_results[r] # << >>
        /\ tool_results[r][1].call.name = "complete_task"
        /\ Get(tool_results[r][1].call.parameters, "task_id") = << "1" >>
        /\ tool_results[r][1].outputs[1] = ErrorResult(NotFound)
        /\ 1 \in DOMAIN tasks
        /\ tasks[1].user_id # req[r].user_id
        /\ ~tasks[1].completed


\* request r, which named no conversation, was accepted
C37Begins(r) ==
    /\ BeginStep(r)
    /\ pc'[r] = "model1"
    /\ req'[r].conversation_id = 0

\* the conversation the request holds is a new row of the caller, and the
\* rows that were there stay as they were
C37Created(r, c) ==
    /\ c \notin DOMAIN conversations
    /\ DOMAIN conversations' = DOMAIN conversations \cup {c}
    /\ conversations'[c].user_id = req'[r].user_id
    /\ req'[r].token_user_id = req'[r].user_id
    /\ \A o \in DOMAIN conversations : conversations'[o] = conversations[o]

\* request r is answered with success
C37Answered(r) ==
    /\ response'[r] # response[r]
    /\ response'[r].status = 200

\* the step appended two messages, the user's and the assistant's, to the
\* conversation the request holds, which is the one it named if it named
\* one; the response carries that conversation and the assistant message's id
C37Stored(r, n) ==
    /\ Len(messages') = n + 2
    /\ SubSeq(messages', 1, n) = messages
    /\ messages'[n + 1].role = "user"
    /\ messages'[n + 1].content = req[r].message
    /\ messages'[n + 2].role = "assistant"
    /\ messages'[n + 1].conversation_id = response'[r].conversation_id
    /\ messages'[n + 2].conversation_id = response'[r].conversation_id
    /\ messages'[n + 2].id = response'[r].message_id
    /\ messages'[n + 1].id # response'[r].message_id
    /\ response'[r].conversation_id = req[r].conversation
    /\ req[r].conversation_id # 0 =>
          response'[r].conversation_id = req[r].conversation_id
    /\ response'[r].conversation_id \in DOMAIN conversations
    /\ conversations[response'[r].conversation_id].user_id = req[r].user_id

\* C37: a turn that names no conversation creates one that is the caller's
\* and is none of the stored ones.  The conversation_id of a successful
\* response is the conversation to which the turn's two messages, and no
\* others, were appended, and its message_id is the id of the stored
\* assistant message.
C37_ResponseNamesWhatWasStored ==
    /\ [][\A r \in Reqs : C37Begins(r) => C37Created(r, req'[r].conversation)]_vars
    /\ [][\A r \in Reqs : C37Answered(r) => C37Stored(r, Len(messages))]_vars

\* a turn of u2 that named no conversation has been answered with the new
\* conversation 3, beside the stored ones, and with the id of the assistant
\* message that is the last row of table messages
C37_Witness ==
    \E r \in Reqs :
        /\ response[r].status = 200
        /\ req[r].conversation_id = 0
        /\ req[r].user_id = "u2"
        /\ response[r].conversation_id = MaxChatConvs
        /\ DOMAIN conversations = 1..MaxChatConvs
        /\ conversations[MaxChatConvs].user_id = "u2"
        /\ conversations[1].user_id = "u1"
        /\ messages # << >>
        /\ Last(messages).id = response[r].message_id
        /\ Last(messages).role = "assistant"
        /\ Last(messages).conversation_id = MaxChatConvs


-----------------------------------------------------------------------------
(* The status filter of the list tool                                      *)

\* status values that list_tasks does not name
OtherStatuses == { "pending", "COMPLETED", "done", "" }

\* the ids of the tasks of a list result
Listed(result) == { IntOf(result.tasks[i].id) : i \in DOMAIN result.tasks }

\* the entries of a list result
Entries(result) == { result.tasks[i] : i \in DOMAIN result.tasks }

\* completed, incomplete and all are the results of list for these statuses:
\* the first two share no task and hold, entry by entry, the tasks of all
C38Partition(completed, incomplete, all) ==
    /\ completed.status = "success"
    /\ incomplete.status = "success"
    /\ all.status = "success"
    /\ Listed(completed) \cap Listed(incomplete) = { }
    /\ Listed(completed) \cup Listed(incomplete) = Listed(all)
    /\ Entries(completed) \cup Entries(incomplete) = Entries(all)
    /\ completed.count + incomplete.count = all.count
    /\ \A i \in DOMAIN completed.tasks : completed.tasks[i].completed
    /\ \A i \in DOMAIN incomplete.tasks : ~incomplete.tasks[i].completed

\* the result of list for owner a and the given parameters
C38List(a, ord, parameters) ==
    execute_tool(tasks, next_id, CleanSession, now, ord, "list_tasks",
                 [user_id |-> a] @@ parameters).result

\* C38: for every store and owner, list with status completed and list with
\* status incomplete return disjoint sets of tasks that together are the
\* tasks of list with status all.  A status that is neither completed nor
\* incomplete, or none, is not rejected and returns what all returns.
C38_StatusFilterPartitions ==
    \A a \in Users, ord \in Orders(DOMAIN tasks) :
        /\ C38Partition(C38List(a, ord, [status |-> "completed"]),
                        C38List(a, ord, [status |-> "incomplete"]),
                        C38List(a, ord, [status |-> "all"]))
        /\ \A status \in OtherStatuses :
              C38List(a, ord, [status |-> status])
                  = C38List(a, ord, [status |-> "all"])
        /\ C38List(a, ord, << >>) = C38List(a, ord, [status |-> "all"])

\* one chat turn has listed by completed, by incomplete and by pending: the
\* first two results hold one task each, not the same one, and the third
\* holds both
C38_Witness ==
    \E r \in Reqs :
        /\ Len(tool_results[r]) = 3
        /\ tool_results[r][1].call.parameters["status"] = "completed"
        /\ tool_results[r][2].call.parameters["status"] = "incomplete"
        /\ tool_results[r][3].call.parameters["status"] = "pending"
        /\ tool_results[r][1].outputs[1].count = 1
        /\ tool_results[r][2].outputs[1].count = 1
        /\ tool_results[r][3].outputs[1].status = "success"
        /\ tool_results[r][3].outputs[1].count = 2
        /\ Listed(tool_results[r][1].outputs[1])
              # Listed(tool_results[r][2].outputs[1])

====
